---- MODULE Spec2Model ----
(***************************************************************************)
(* Priority job queue of AgenticQuote.                                     *)
(*                                                                         *)
(*   app/message_queue.py  MessageQueue       in-process backend           *)
(*   app/redis_queue.py    RedisMessageQueue  durable backend (real store) *)
(*                                                                         *)
(* Every MessageQueue method runs under `async with self._lock` and never  *)
(* awaits inside the critical section, so each method is one atomic        *)
(* action.  Every RedisMessageQueue method awaits the store once per       *)
(* primitive (zcard, zadd, zpopmin, hget, hset, hdel, expire, hincrby), so  *)
(* a method is a chain of steps, one per store call that changes or reads  *)
(* shared data, and concurrent callers interleave between the steps.  The  *)
(* counter updates that end a method touch only the counters hash and are  *)
(* taken together with the return.                                         *)
(*                                                                         *)
(* datetime.now() is the variable `now`, a wall clock that never runs      *)
(* backwards; two calls may read the same value.  The runs of the durable  *)
(* backend all happen within one clock reading.                            *)
(***************************************************************************)
EXTENDS Integers, Sequences, FiniteSets, TLC

\* ------------------------------------------------------------------ bounds
\* number of jobs ever admitted
MaxJobs == 2
\* number of jobs admitted in the runs that only admit and claim
MaxAdmits == 3
\* number of calls on the durable backend that get past their first store
\* call
MaxCalls == 7
\* the clock runs over 0..MaxTime
MaxTime == 1
\* store calls that fail in one run
MaxFailures == 1

\* ------------------------------------------------------- program constants
\* QueueMessage.max_retries default; enqueue never overrides it
max_retries == 3
\* QueueMessage.timeout_seconds default
timeout_seconds == 300
\* Optional[datetime] = None
NoTime == -1
\* Optional[str] = None
NoError == "None"

\* message ids: the n-th QueueMessage constructed has id n (uuid4 is fresh)
Ids == 1..(IF MaxJobs > MaxAdmits THEN MaxJobs ELSE MaxAdmits)
\* message_id argument of complete and fail
AckIds == 1..MaxJobs

\* MessagePriority members and their values
Priorities == {"LOW", "NORMAL", "HIGH", "URGENT"}
PriorityValue(p) ==
    CASE p = "LOW" -> 1
      [] p = "NORMAL" -> 2
      [] p = "HIGH" -> 3
      [] p = "URGENT" -> 4

\* QueueStatus members (PROCESSING is the spec's IN_FLIGHT)
Statuses == {"PENDING", "PROCESSING", "COMPLETED", "FAILED", "CANCELLED"}
StatusValue(s) ==
    CASE s = "PENDING" -> "pending"
      [] s = "PROCESSING" -> "processing"
      [] s = "COMPLETED" -> "completed"
      [] s = "FAILED" -> "failed"
      [] s = "CANCELLED" -> "cancelled"

\* ------------------------------------------------------------------ inputs
\* payload documents are maps from keys to values; a key that is absent maps
\* to Absent
Absent == "absent"
PayloadKeys == {"applicant", "coverage", "decision"}
Doc(a, c, d) == [applicant |-> a, coverage |-> c, decision |-> d]
EmptyDoc == Doc(Absent, Absent, Absent)
\* payloads handed to enqueue
Payloads == {Doc("ann", "150000", Absent)}
\* result argument of complete: None, {}, or a document with one key the
\* payload holds and one it does not
NoResult == [none |-> TRUE, doc |-> EmptyDoc]
Some(doc) == [none |-> FALSE, doc |-> doc]
Results == {NoResult, Some(EmptyDoc), Some(Doc(Absent, "200000", "ACCEPT"))}
\* max_size argument of the constructor
MaxSizes == {1, 2}
\* priority argument of enqueue where acknowledgements are exercised too
MemPriorities == {"NORMAL", "URGENT"}
\* priority argument of enqueue on the durable backend
RedisPriorities == {"NORMAL"}
\* error_message argument of fail
Errors == {"e1", "e2"}
\* older_than_hours argument of cleanup_old_messages
SweepAges == {0, 1}
PairErrors == {"e1"}
Payloads1 == CHOOSE payload \in Payloads : TRUE
NoCall == [op |-> "none"]
\* keys a caller assigns in a dict it holds
Assignments == {Doc("eve", Absent, Absent)}
\* a caller that keeps nothing the queue gave it or took from it
NoReference == [kind |-> "none", id |-> 0]

VARIABLES
    backend,      \* which implementation this run exercises
    max_size,     \* self.max_size
    callers,      \* how many callers use the durable backend concurrently
    REDIS_AVAILABLE, \* whether `import redis.asyncio` succeeded
    reachable,    \* whether the store answers the ping of initialize
    now,          \* datetime.now()
    nextId,       \* number of QueueMessage objects constructed so far + 1
    queue,        \* MessageQueue._queue: list of messages
    processing,   \* MessageQueue._processing: id -> message
    completed,    \* MessageQueue._completed: id -> message
    ret,          \* the last call that returned, and the value it returned
    zqueue,       \* store: sorted set QUEUE_KEY, a set of (member, score)
    hprocessing,  \* store: hash PROCESSING_KEY, id -> serialized message
    hcompleted,   \* store: hash COMPLETED_KEY, id -> serialized message
    stats,        \* store: hash STATS_KEY
    expiring,     \* store: keys that carry a time to live
    pc,           \* per caller: the store call it is about to issue
    msg,          \* per caller: the local variable `message`
    calls,        \* number of RedisMessageQueue calls started
    outstanding,  \* per job: dequeues that took it since fail last put it back
    swept,        \* ids cleanup_old_messages has deleted
    old_message_ids, \* per caller: the local variable of cleanup_old_messages
    _redis,       \* RedisMessageQueue._redis
    _mock_redis,  \* RedisMessageQueue._mock_redis
    _use_mock,    \* RedisMessageQueue._use_mock
    initializations, \* how many times initialize() has run (at most 2 are counted)
    failures,     \* how many store calls have raised
    mock_redis,   \* the MockRedis instance: its sorted set and its hashes, by key
    kept,         \* what a caller of MessageQueue keeps a reference to
    call,         \* two backends side by side: the call both are given
    mret,         \* two backends side by side: what MessageQueue returned for it
    original,     \* round trip: the QueueMessage that is serialized
    stored,       \* round trip: the dict to_dict returned for it
    restored,     \* round trip: the QueueMessage from_dict built from the dict
    queue2,       \* a second RedisMessageQueue object: its _mock_redis and _use_mock
    queue2_ids     \* ids returned by enqueue calls on the second object

cfgVars == <<backend, max_size, callers, REDIS_AVAILABLE, reachable>>
memVars == <<queue, processing, completed>>
redisVars == <<zqueue, hprocessing, hcompleted, stats, expiring, pc, msg, calls>>
connVars == <<_redis, _mock_redis, _use_mock, initializations, failures>>
pairVars == <<call, mret>>
tripVars == <<original, stored, restored>>
queue2Vars == <<queue2, queue2_ids>>
extVars == <<old_message_ids, connVars, mock_redis, pairVars, kept, tripVars, queue2Vars>>
vars == <<cfgVars, extVars, now, nextId, ret, memVars, redisVars, outstanding, swept>>

\* datetime.isoformat() and datetime.fromisoformat(); None where a time is
\* missing
isoformat(t) == [iso |-> t]
fromisoformat(x) == x.iso
JsonNull == [iso |-> NoTime]

\* ------------------------------------------------------------ QueueMessage
\* QueueMessage(payload=payload, priority=priority): the dataclass defaults
QueueMessage(id, payload, priority, t) ==
    [id |-> id, payload |-> payload, priority |-> priority,
     status |-> "PENDING", created_at |-> t, started_at |-> NoTime,
     completed_at |-> NoTime, error_message |-> NoError,
     retry_count |-> 0, max_retries |-> max_retries,
     timeout_seconds |-> timeout_seconds]

\* a merge that keeps the payload's value on a key both hold
update_keep(payload, doc) ==
    [k \in PayloadKeys |-> IF payload[k] # Absent THEN payload[k] ELSE doc[k]]

\* dict.update(result): key union, result's value on every key it holds
update(payload, doc) ==
    [k \in PayloadKeys |-> IF doc[k] # Absent THEN doc[k] ELSE payload[k]]

\* `if result:` is false for None and for the empty dict
Truthy(result) == ~result.none /\ result.doc # EmptyDoc

\* ---------------------------------------------------------- list.sort(key)
\* the key without the minus sign: lowest priority first
KeyLessAscending(a, b) ==
    \/ PriorityValue(a.priority) < PriorityValue(b.priority)
    \/ /\ PriorityValue(a.priority) = PriorityValue(b.priority)
       /\ a.created_at < b.created_at

\* key=lambda m: (-m.priority.value, m.created_at), compared as tuples
KeyLess(a, b) ==
    \/ -PriorityValue(a.priority) < -PriorityValue(b.priority)
    \/ /\ PriorityValue(a.priority) = PriorityValue(b.priority)
       /\ a.created_at < b.created_at

\* the position an unstable sort could give m: before every element whose
\* key is not smaller than m's
RECURSIVE InsertBefore(_, _)
InsertBefore(s, m) ==
    IF s = <<>> THEN <<m>>
    ELSE IF ~KeyLess(s[Len(s)], m) THEN Append(InsertBefore(SubSeq(s, 1, Len(s) - 1), m), s[Len(s)])
    ELSE Append(s, m)

\* position at which a stable sort places m among the already sorted s:
\* after every element whose key is not greater than m's
RECURSIVE InsertStable(_, _)
InsertStable(s, m) ==
    IF s = <<>> THEN <<m>>
    ELSE IF KeyLess(m, s[Len(s)]) THEN Append(InsertStable(SubSeq(s, 1, Len(s) - 1), m), s[Len(s)])
    ELSE Append(s, m)

\* a list left in the order of arrival
unsorted(s) == s

\* list.sort is stable: insertion sort from the left
RECURSIVE sort(_)
sort(s) ==
    IF s = <<>> THEN <<>>
    ELSE InsertStable(sort(SubSeq(s, 1, Len(s) - 1)), s[Len(s)])

QueueIds(q) == {q[i].id : i \in 1..Len(q)}

\* str(n) for the counts cleanup_old_messages returns
CountName(n) == CASE n = 0 -> "0" [] n = 1 -> "1" [] n = 2 -> "2" [] OTHER -> "many"

Ret(op, id, val) == [op |-> op, id |-> id, val |-> val]

\* a call with its arguments; `first` is the number the next new message gets
Call(op, message_id, priority, result, error_message, older_than_hours, first) ==
    [op |-> op, message_id |-> message_id, priority |-> priority, result |-> result,
     error_message |-> error_message, older_than_hours |-> older_than_hours,
     first |-> first, last |-> first]

\* callers of the durable backend
Procs == {"c1", "c2"}

\* the capacity test that lets one job more in
is_full_strict(n) == n > max_size

\* `if len(self._queue) >= self.max_size` / `if queue_size >= self.max_size`
is_full(n) == n >= max_size

\* the test with one attempt fewer
retries_left_early(m) == m.retry_count + 1 < m.max_retries

\* the test with one attempt more
retries_left_inclusive(m) == m.retry_count <= m.max_retries

\* `if message.retry_count < message.max_retries`
retries_left(m) == m.retry_count < m.max_retries

\* dequeue marking the message without changing its status
start_unmarked(message, t) == [message EXCEPT !.started_at = t]

\* dequeue: message.status = PROCESSING; message.started_at = datetime.now()
start(message, t) == [message EXCEPT !.status = "PROCESSING", !.started_at = t]

\* complete without the completion stamp
finish_unstamped(message, result, t) ==
    [message EXCEPT
       !.status = "COMPLETED",
       !.payload = IF Truthy(result) THEN update(message.payload, result.doc) ELSE message.payload]

\* a complete that clears the error of the earlier attempts
finish_cleared(message, result, t) ==
    [message EXCEPT
       !.status = "COMPLETED",
       !.completed_at = t,
       !.error_message = NoError,
       !.payload = IF Truthy(result) THEN update(message.payload, result.doc) ELSE message.payload]

\* complete: status = COMPLETED; completed_at = datetime.now();
\* `if result: message.payload.update(result)`
finish(message, result, t) ==
    [message EXCEPT
       !.status = "COMPLETED",
       !.completed_at = t,
       !.payload = IF Truthy(result) THEN update(message.payload, result.doc) ELSE message.payload]

\* a fail that records the error but does not count it
count_failure_uncounted(message, error_message) ==
    [message EXCEPT !.error_message = error_message]

\* a fail that keeps the first error reported for the message
count_failure_first(message, error_message) ==
    [message EXCEPT
       !.error_message = IF message.error_message = NoError THEN error_message ELSE @,
       !.retry_count = message.retry_count + 1]

\* fail: error_message = error_message; retry_count += 1
count_failure(message, error_message) ==
    [message EXCEPT !.error_message = error_message, !.retry_count = message.retry_count + 1]

\* a retry that keeps the time of the claim
retry_stamped(message) == [message EXCEPT !.status = "PENDING"]

\* fail, retries left: status = PENDING; started_at = None
retry(message) == [message EXCEPT !.status = "PENDING", !.started_at = NoTime]

\* fail giving the message up as cancelled
give_up_cancelled(message, t) == [message EXCEPT !.status = "CANCELLED", !.completed_at = t]

\* fail, no retries left: status = FAILED; completed_at = datetime.now()
give_up(message, t) == [message EXCEPT !.status = "FAILED", !.completed_at = t]

\* the local variable `message` of a caller that holds none
NoMessage == QueueMessage(0, EmptyDoc, "LOW", NoTime)

\* no dict: to_dict has not been called
NoDict == [id |-> 0]
\* RedisMessageQueue.__init__: no client, no mock, _use_mock False
NoInstance == [_redis |-> "None", _mock_redis |-> "None", _use_mock |-> FALSE]

\* the counters hash; a field never incremented reads as 0
NoStats ==
    [total_enqueued |-> 0, total_dequeued |-> 0, total_completed |-> 0,
     total_failed |-> 0, total_retries |-> 0, currently_processing |-> 0]

\* observer: dequeue took job i out of the pending set to return it / fail
\* put job i back into the pending set
Claimed(i) == [outstanding EXCEPT ![i] = IF @ < 2 THEN @ + 1 ELSE @]
Requeued(i) == [outstanding EXCEPT ![i] = 0]

\* ------------------------------------------------- MessageQueue (in-process)
InitCommon ==
    /\ now = 0
    /\ nextId = 1
    /\ ret = Ret("init", 0, "None")
    /\ outstanding = [i \in Ids |-> 0]
    /\ swept = {}
    \* MessageQueue.__init__
    /\ queue = <<>>
    /\ processing = <<>>
    /\ completed = <<>>
    \* RedisMessageQueue.__init__ against an empty store
    /\ zqueue = {}
    /\ hprocessing = <<>>
    /\ hcompleted = <<>>
    /\ stats = NoStats
    /\ expiring = {}
    /\ pc = [p \in Procs |-> "idle"]
    /\ msg = [p \in Procs |-> NoMessage]
    /\ calls = 0
    /\ old_message_ids = [p \in Procs |-> {}]
    /\ _redis = "None"
    /\ _mock_redis = "None"
    /\ _use_mock = FALSE
    /\ initializations = 0
    /\ failures = 0
    /\ call = NoCall
    /\ mret = Ret("none", 0, "None")
    /\ kept = NoReference
    /\ stored = NoDict
    /\ restored = NoMessage
    /\ queue2 = NoInstance
    /\ queue2_ids = {}
    \* MockRedis.__init__ (_sorted_sets, _hashes)
    /\ mock_redis = [QUEUE_KEY |-> <<>>, PROCESSING_KEY |-> <<>>, COMPLETED_KEY |-> <<>>,
                STATS_KEY |-> NoStats]

InitMem ==
    /\ backend = "memory"
    /\ max_size \in MaxSizes
    /\ callers = 1
    /\ REDIS_AVAILABLE = TRUE
    /\ reachable = TRUE
    /\ InitCommon
    /\ original = NoMessage

\* the wall clock advances between calls
Tick ==
    /\ \/ backend = "memory"
       \/ callers = 1 /\ pc["c1"] = "idle"
    /\ now < MaxTime
    /\ now' = now + 1
    /\ UNCHANGED <<cfgVars, extVars, nextId, ret, memVars, redisVars, outstanding, swept>>

enqueue(payload, priority) ==
    /\ backend = "memory"
    /\ IF is_full(Len(queue))
       THEN /\ ret' = Ret("enqueue", 0, "ValueError")
            /\ UNCHANGED <<nextId, queue>>
       ELSE /\ queue' = sort(Append(queue, QueueMessage(nextId, payload, priority, now)))
            /\ nextId' = nextId + 1
            /\ ret' = Ret("enqueue", nextId, "id")
    /\ UNCHANGED <<cfgVars, extVars, now, processing, completed, redisVars, outstanding, swept>>

dequeue ==
    /\ backend = "memory"
    /\ IF queue = <<>>
       THEN /\ ret' = Ret("dequeue", 0, "None")
            /\ UNCHANGED <<queue, processing, outstanding>>
       ELSE LET message == start(queue[1], now)
            IN /\ queue' = Tail(queue)
               /\ processing' = [i \in DOMAIN processing \cup {message.id} |->
                                   IF i = message.id THEN message ELSE processing[i]]
               /\ ret' = Ret("dequeue", message.id, "message")
               /\ outstanding' = Claimed(message.id)
    /\ UNCHANGED <<cfgVars, extVars, now, nextId, completed, redisVars, swept>>

\* complete without the early return of False
complete_unchecked(message_id, result) ==
    /\ backend = "memory"
    /\ IF message_id \notin DOMAIN processing
       THEN /\ ret' = Ret("complete", message_id, "True")
            /\ UNCHANGED <<processing, completed>>
       ELSE LET message == finish(processing[message_id], result, now)
            IN /\ processing' = [i \in DOMAIN processing \ {message_id} |-> processing[i]]
               /\ completed' = [i \in DOMAIN completed \cup {message_id} |->
                                  IF i = message_id THEN message ELSE completed[i]]
               /\ ret' = Ret("complete", message_id, "True")
    /\ UNCHANGED <<cfgVars, extVars, now, nextId, queue, redisVars, outstanding, swept>>

\* complete that also accepts an id it finds in the completed map
complete_again(message_id, result) ==
    /\ backend = "memory"
    /\ IF message_id \in DOMAIN completed
       THEN /\ completed' = [completed EXCEPT ![message_id] = finish(@, result, now)]
            /\ ret' = Ret("complete", message_id, "True")
            /\ UNCHANGED processing
       ELSE IF message_id \notin DOMAIN processing
       THEN /\ ret' = Ret("complete", 0, "False")
            /\ UNCHANGED <<processing, completed>>
       ELSE LET message == finish(processing[message_id], result, now)
            IN /\ processing' = [i \in DOMAIN processing \ {message_id} |-> processing[i]]
               /\ completed' = [i \in DOMAIN completed \cup {message_id} |->
                                  IF i = message_id THEN message ELSE completed[i]]
               /\ ret' = Ret("complete", message_id, "True")
    /\ UNCHANGED <<cfgVars, extVars, now, nextId, queue, redisVars, outstanding, swept>>

complete(message_id, result) ==
    /\ backend = "memory"
    /\ IF message_id \notin DOMAIN processing
       THEN /\ ret' = Ret("complete", 0, "False")
            /\ UNCHANGED <<processing, completed>>
       ELSE LET message == finish(processing[message_id], result, now)
            IN /\ processing' = [i \in DOMAIN processing \ {message_id} |-> processing[i]]
               /\ completed' = [i \in DOMAIN completed \cup {message_id} |->
                                  IF i = message_id THEN message ELSE completed[i]]
               /\ ret' = Ret("complete", message_id, "True")
    /\ UNCHANGED <<cfgVars, extVars, now, nextId, queue, redisVars, outstanding, swept>>

fail(message_id, error_message) ==
    /\ backend = "memory"
    /\ IF message_id \notin DOMAIN processing
       THEN /\ ret' = Ret("fail", 0, "False")
            /\ UNCHANGED <<queue, processing, completed, outstanding>>
       ELSE LET message == count_failure(processing[message_id], error_message)
            IN /\ processing' = [i \in DOMAIN processing \ {message_id} |-> processing[i]]
               /\ IF retries_left(message)
                  THEN /\ queue' = sort(Append(queue, retry(message)))
                       /\ outstanding' = Requeued(message_id)
                       /\ UNCHANGED completed
                  ELSE /\ completed' = [i \in DOMAIN completed \cup {message_id} |->
                                          IF i = message_id THEN give_up(message, now)
                                          ELSE completed[i]]
                       /\ UNCHANGED <<queue, outstanding>>
               /\ ret' = Ret("fail", message_id, "True")
    /\ UNCHANGED <<cfgVars, extVars, now, nextId, redisVars, swept>>

\* a cleanup that also deletes messages completed exactly at the cutoff
cleanup_at_cutoff(older_than_hours) ==
    /\ backend = "memory"
    /\ LET cutoff_time == now - older_than_hours
           old_messages == {i \in DOMAIN completed :
                              /\ completed[i].completed_at # NoTime
                              /\ completed[i].completed_at <= cutoff_time}
       IN /\ completed' = [i \in DOMAIN completed \ old_messages |-> completed[i]]
          /\ swept' = swept \cup old_messages
          /\ ret' = Ret("cleanup_old_messages", 0, CountName(Cardinality(old_messages)))
    /\ UNCHANGED <<cfgVars, extVars, now, nextId, queue, processing, redisVars, outstanding>>

cleanup_old_messages(older_than_hours) ==
    /\ backend = "memory"
    /\ LET cutoff_time == now - older_than_hours
           old_messages == {i \in DOMAIN completed :
                              /\ completed[i].completed_at # NoTime
                              /\ completed[i].completed_at < cutoff_time}
       IN /\ completed' = [i \in DOMAIN completed \ old_messages |-> completed[i]]
          /\ swept' = swept \cup old_messages
          /\ ret' = Ret("cleanup_old_messages", 0, CountName(Cardinality(old_messages)))
    /\ UNCHANGED <<cfgVars, extVars, now, nextId, queue, processing, redisVars, outstanding>>

\* a search that leaves out the processing map
lookup_skip_processing(q, p, c, message_id) ==
    IF message_id \in QueueIds(q)
    THEN q[CHOOSE k \in 1..Len(q) : q[k].id = message_id /\ \A j \in 1..(k - 1) : q[j].id # message_id]
    ELSE IF message_id \in DOMAIN c THEN c[message_id]
    ELSE NoMessage

\* the message get_status reports on: the pending list is searched first,
\* then the processing map, then the completed map; NoMessage when the id is
\* in none of them
lookup(q, p, c, message_id) ==
    IF message_id \in QueueIds(q)
    THEN q[CHOOSE k \in 1..Len(q) : q[k].id = message_id /\ \A j \in 1..(k - 1) : q[j].id # message_id]
    ELSE IF message_id \in DOMAIN p THEN p[message_id]
    ELSE IF message_id \in DOMAIN c THEN c[message_id]
    ELSE NoMessage

\* the dictionary of the API response; of NoMessage it stands for None
_message_to_dict(message) ==
    [id |-> message.id,
     status |-> StatusValue(message.status),
     priority |-> message.priority,
     created_at |-> isoformat(message.created_at),
     started_at |-> IF message.started_at # NoTime THEN isoformat(message.started_at) ELSE JsonNull,
     completed_at |-> IF message.completed_at # NoTime THEN isoformat(message.completed_at) ELSE JsonNull,
     error_message |-> message.error_message,
     retry_count |-> message.retry_count,
     max_retries |-> message.max_retries,
     payload |-> message.payload]

get_status(q, p, c, message_id) == _message_to_dict(lookup(q, p, c, message_id))

\* max() of a non-empty set of numbers
max(S) == CHOOSE x \in S : \A y \in S : y <= x

\* the dict get_queue_stats returns for pending list q, processing map p and
\* completed map c at clock reading t
get_queue_stats(q, p, c, t) ==
    [pending_count |-> Len(q),
     processing_count |-> Cardinality(DOMAIN p),
     completed_count |-> Cardinality(DOMAIN c),
     max_size |-> max_size,
     oldest_pending |-> IF q # <<>> THEN isoformat(q[1].created_at) ELSE JsonNull,
     longest_processing |-> IF DOMAIN p # {}
                            THEN max({t - p[i].started_at : i \in DOMAIN p})
                            ELSE 0]

\* ------------------------------- references callers of MessageQueue hold
\* The queue stores the objects it is given and returns the objects it
\* stores: QueueMessage(payload=payload) keeps the caller's dict, dequeue
\* returns the QueueMessage it put into _processing, and _message_to_dict
\* puts message.payload itself into the dict get_status returns.  A
\* reference is modelled by the job whose object it leads to.

\* the caller keeps the dict it passed to the enqueue that just returned
hold_payload ==
    /\ backend = "memory"
    /\ ret.op = "enqueue" /\ ret.val = "id"
    /\ kept' = [kind |-> "payload", id |-> ret.id]
    /\ UNCHANGED <<cfgVars, tripVars, queue2Vars, old_message_ids, connVars, mock_redis, pairVars, now, nextId, ret, memVars,
                   redisVars, outstanding, swept>>

\* the caller keeps the QueueMessage the dequeue that just returned gave it
hold_message ==
    /\ backend = "memory"
    /\ ret.op = "dequeue" /\ ret.val = "message"
    /\ kept' = [kind |-> "message", id |-> ret.id]
    /\ UNCHANGED <<cfgVars, tripVars, queue2Vars, old_message_ids, connVars, mock_redis, pairVars, now, nextId, ret, memVars,
                   redisVars, outstanding, swept>>

\* the caller calls get_status(message_id) and keeps the dict it returns
hold_view(message_id) ==
    /\ backend = "memory"
    /\ lookup(queue, processing, completed, message_id) # NoMessage
    /\ kept' = [kind |-> "view", id |-> message_id]
    /\ ret' = Ret("get_status", message_id, get_status(queue, processing, completed, message_id).status)
    /\ UNCHANGED <<cfgVars, tripVars, queue2Vars, old_message_ids, connVars, mock_redis, pairVars, now, nextId, memVars,
                   redisVars, outstanding, swept>>

\* the payload dict of job i after d.update(doc), in whichever container
\* holds the job
assigned(message, i, doc) ==
    IF message.id = i THEN [message EXCEPT !.payload = update(@, doc)] ELSE message

\* the caller assigns keys in the payload dict it reaches through what it
\* keeps (payload[k] = v, message.payload[k] = v, view["payload"][k] = v):
\* the dict is the one the stored QueueMessage has
assign(doc) ==
    /\ backend = "memory"
    /\ kept # NoReference
    /\ queue' = [k \in 1..Len(queue) |-> assigned(queue[k], kept.id, doc)]
    /\ processing' = [i \in DOMAIN processing |-> assigned(processing[i], kept.id, doc)]
    /\ completed' = [i \in DOMAIN completed |-> assigned(completed[i], kept.id, doc)]
    /\ UNCHANGED <<cfgVars, extVars, now, nextId, ret, redisVars, outstanding, swept>>

\* what the caller reads through what it keeps: the stored QueueMessage, or
\* its payload dict
referent(q, p, c) ==
    IF kept.kind = "message"
    THEN lookup(q, p, c, kept.id)
    ELSE lookup(q, p, c, kept.id).payload

\* ----------------------------------------- QueueMessage.to_dict / from_dict

\* MessagePriority(value) and QueueStatus(value): lookup of a member by value
MessagePriority(v) == CHOOSE p \in Priorities : PriorityValue(p) = v
QueueStatus(v) == CHOOSE s \in Statuses : StatusValue(s) = v

to_dict(m) ==
    [id |-> m.id, payload |-> m.payload,
     priority |-> PriorityValue(m.priority),
     status |-> StatusValue(m.status),
     created_at |-> isoformat(m.created_at),
     started_at |-> IF m.started_at # NoTime THEN isoformat(m.started_at) ELSE JsonNull,
     completed_at |-> IF m.completed_at # NoTime THEN isoformat(m.completed_at) ELSE JsonNull,
     error_message |-> m.error_message,
     retry_count |-> m.retry_count, max_retries |-> m.max_retries,
     timeout_seconds |-> m.timeout_seconds]

\* a from_dict that leaves started_at and completed_at at their defaults
from_dict_unstamped(data) ==
    [id |-> data.id, payload |-> data.payload,
     priority |-> MessagePriority(data.priority),
     status |-> QueueStatus(data.status),
     created_at |-> fromisoformat(data.created_at),
     started_at |-> NoTime,
     completed_at |-> NoTime,
     error_message |-> data.error_message,
     retry_count |-> data.retry_count, max_retries |-> data.max_retries,
     timeout_seconds |-> data.timeout_seconds]

from_dict(data) ==
    [id |-> data.id, payload |-> data.payload,
     priority |-> MessagePriority(data.priority),
     status |-> QueueStatus(data.status),
     created_at |-> fromisoformat(data.created_at),
     started_at |-> IF data.started_at # JsonNull THEN fromisoformat(data.started_at) ELSE NoTime,
     completed_at |-> IF data.completed_at # JsonNull THEN fromisoformat(data.completed_at) ELSE NoTime,
     error_message |-> data.error_message,
     retry_count |-> data.retry_count, max_retries |-> data.max_retries,
     timeout_seconds |-> data.timeout_seconds]

\* ---------------------------------------- to_dict and from_dict, one record
\* QueueMessage objects of every priority and status, with started_at,
\* completed_at and error_message set or None
Times == 0..MaxTime
Messages ==
    [id : 1..MaxJobs, payload : Payloads \cup {EmptyDoc}, priority : Priorities,
     status : Statuses, created_at : Times, started_at : Times \cup {NoTime},
     completed_at : Times \cup {NoTime}, error_message : Errors \cup {NoError},
     retry_count : 0..max_retries, max_retries : {max_retries},
     timeout_seconds : {timeout_seconds}]

InitTrip ==
    /\ backend = "redis"
    /\ max_size \in MaxSizes
    /\ callers = 1
    /\ REDIS_AVAILABLE = TRUE
    /\ reachable = TRUE
    /\ InitCommon
    /\ original \in Messages

\* data = original.to_dict()
QueueMessage_to_dict ==
    /\ original # NoMessage
    /\ ret.op = "init"
    /\ stored' = to_dict(original)
    /\ ret' = Ret("to_dict", original.id, "dict")
    /\ UNCHANGED <<cfgVars, original, restored, queue2Vars, old_message_ids, connVars, mock_redis,
                   pairVars, kept, now, nextId, memVars, redisVars, outstanding, swept>>

\* message = QueueMessage.from_dict(data)
QueueMessage_from_dict ==
    /\ original # NoMessage
    /\ ret.op = "to_dict"
    /\ restored' = from_dict(stored)
    /\ ret' = Ret("from_dict", original.id, "message")
    /\ UNCHANGED <<cfgVars, original, stored, queue2Vars, old_message_ids, connVars, mock_redis,
                   pairVars, kept, now, nextId, memVars, redisVars, outstanding, swept>>

NextTrip ==
    \/ QueueMessage_to_dict
    \/ QueueMessage_from_dict

\* one QueueMessage serialized and parsed back
SpecTrip == InitTrip /\ [][NextTrip]_vars

\* ------------------------------------------------------- store primitives
\* sorted set: a set of (member, score); a member is held once, and adding
\* it again only sets its score
zadd(z, member, score) ==
    {e \in z : e.member # member} \cup {[member |-> member, score |-> score]}

zcard(z) == Cardinality(z)

\* what zpopmin(count=1) may pop: a member of lowest score.  The store orders
\* members of equal score by their bytes, which begin with the random uuid,
\* so any of them may be first.
zpopmin(z) == {e \in z : \A f \in z : e.score <= f.score}

hset(h, field, value) == [k \in DOMAIN h \cup {field} |-> IF k = field THEN value ELSE h[k]]
hdel(h, field) == [k \in DOMAIN h \ {field} |-> h[k]]
hdel_fields(h, fields) == [k \in DOMAIN h \ fields |-> h[k]]
hincrby(h, field, increment) == [h EXCEPT ![field] = @ + increment]

\* a key with a time to live keeps it while it exists; a hash that loses its
\* last field no longer exists
expire(keys, key, h) == IF DOMAIN h # {} THEN keys \cup {key} ELSE keys
persist(keys, key, h) == IF DOMAIN h = {} THEN keys \ {key} ELSE keys

\* what get_status may return when no other call runs meanwhile: a pending
\* member with the id (zrange is searched first), else the processing entry,
\* else the completed entry; empty for None
redis_get_status(z, hp, hc, message_id) ==
    IF \E e \in z : e.member.id = message_id
    THEN {e.member : e \in {f \in z : f.member.id = message_id}}
    ELSE IF message_id \in DOMAIN hp THEN {hp[message_id]}
    ELSE IF message_id \in DOMAIN hc THEN {hc[message_id]}
    ELSE {}

\* what get_queue_stats may return on the real store when no other call runs
\* meanwhile: oldest_pending is the created_at of the first member zrange
\* gives, one of lowest score
redis_get_queue_stats(z, hp, hc, st, t) ==
    {[pending_count |-> zcard(z),
      processing_count |-> Cardinality(DOMAIN hp),
      completed_count |-> Cardinality(DOMAIN hc),
      max_size |-> max_size,
      oldest_pending |-> oldest_pending,
      longest_processing |-> max({0} \cup {t - fromisoformat(hp[i].started_at) :
                                              i \in {j \in DOMAIN hp : hp[j].started_at # JsonNull}}),
      total_enqueued |-> st.total_enqueued,
      total_dequeued |-> st.total_dequeued,
      total_completed |-> st.total_completed,
      total_failed |-> st.total_failed,
      total_retries |-> st.total_retries,
      currently_processing |-> st.currently_processing] :
        oldest_pending \in IF zcard(z) > 0
                           THEN {e.member.created_at : e \in zpopmin(z)}
                           ELSE {JsonNull}}

\* ------------------------------------- RedisMessageQueue (durable, real store)
InitRedis ==
    /\ backend = "redis"
    /\ max_size \in MaxSizes
    /\ callers \in {1, 2}
    /\ REDIS_AVAILABLE = TRUE
    /\ reachable = TRUE
    /\ InitCommon
    /\ original = NoMessage

\* initialize(), which the first call runs before anything else: without the
\* client library, or when the ping fails, the mock store is taken
\* the body of initialize()
connect ==
    /\ initializations' = IF initializations < 2 THEN initializations + 1 ELSE initializations
    /\ UNCHANGED failures
    /\ IF ~REDIS_AVAILABLE
       THEN /\ _mock_redis' = "mock_redis"
            /\ _use_mock' = TRUE
            /\ UNCHANGED _redis
       ELSE /\ _redis' = "Redis"
            /\ IF reachable
               THEN UNCHANGED <<_mock_redis, _use_mock>>
               ELSE /\ _mock_redis' = "mock_redis"
                    /\ _use_mock' = TRUE

initialize ==
    /\ backend = "redis"
    /\ _redis = "None" /\ _mock_redis = "None"
    /\ \A p \in Procs : pc[p] = "idle"
    /\ connect
    /\ UNCHANGED <<cfgVars, kept, tripVars, queue2Vars, pairVars, old_message_ids, mock_redis, now, nextId, ret, memVars, redisVars, outstanding, swept>>

Goto(p, label, m) ==
    /\ pc' = [pc EXCEPT ![p] = label]
    /\ msg' = [msg EXCEPT ![p] = m]

\* a call that gets past its first store call counts against MaxCalls; `ret`
\* forgets the previous call's result from then on
Proceed(p, label, m) ==
    /\ Goto(p, label, m)
    /\ calls' = calls + 1
    /\ ret' = Ret("call", 0, "None")

Refuse(p, op, val) ==
    /\ ret' = Ret(op, 0, val)
    /\ UNCHANGED <<pc, msg, calls>>

Return(p, op, id, val) ==
    /\ Goto(p, "idle", NoMessage)
    /\ ret' = Ret(op, id, val)

At(p, label) == backend = "redis" /\ pc[p] = label

\* callers are interchangeable: of two idle callers the first one calls
Start(p) ==
    /\ At(p, "idle")
    /\ _redis # "None" \/ _mock_redis # "None"
    /\ ~_use_mock
    /\ p = "c2" => callers = 2 /\ pc["c1"] # "idle"
    /\ calls < MaxCalls

redis_enqueue(p, payload, priority) ==
    /\ Start(p)
    /\ IF is_full(zcard(zqueue))
       THEN /\ Refuse(p, "enqueue", "ValueError")
            /\ UNCHANGED nextId
       ELSE /\ Proceed(p, "enqueue_zadd", QueueMessage(nextId, payload, priority, now))
            /\ nextId' = nextId + 1
    /\ UNCHANGED <<cfgVars, extVars, now, memVars, zqueue, hprocessing, hcompleted, stats, expiring, outstanding, swept>>

redis_enqueue_zadd(p) ==
    /\ At(p, "enqueue_zadd")
    /\ zqueue' = zadd(zqueue, to_dict(msg[p]), -PriorityValue(msg[p].priority))
    /\ Goto(p, "enqueue_hincrby", msg[p])
    /\ UNCHANGED <<cfgVars, extVars, now, nextId, ret, memVars, hprocessing, hcompleted, stats, expiring, calls, outstanding, swept>>

redis_enqueue_hincrby(p) ==
    /\ At(p, "enqueue_hincrby")
    /\ stats' = hincrby(stats, "total_enqueued", 1)
    /\ Return(p, "enqueue", msg[p].id, "id")
    /\ UNCHANGED <<cfgVars, extVars, now, nextId, memVars, zqueue, hprocessing, hcompleted, expiring, calls, outstanding, swept>>

\* a dequeue that counts the call as a dispatch before it looks at the result
redis_dequeue_counting(p) ==
    /\ Start(p)
    /\ IF zpopmin(zqueue) = {}
       THEN /\ Refuse(p, "dequeue", "None")
            /\ stats' = hincrby(stats, "total_dequeued", 1)
            /\ UNCHANGED <<zqueue, outstanding>>
       ELSE /\ \E result \in zpopmin(zqueue) :
                  /\ zqueue' = zqueue \ {result}
                  /\ Proceed(p, "dequeue_hset", start(from_dict(result.member), now))
                  /\ outstanding' = Claimed(result.member.id)
            /\ UNCHANGED stats
    /\ UNCHANGED <<cfgVars, extVars, now, nextId, memVars, hprocessing, hcompleted, expiring, swept>>

redis_dequeue(p) ==
    /\ Start(p)
    /\ IF zpopmin(zqueue) = {}
       THEN /\ Refuse(p, "dequeue", "None")
            /\ UNCHANGED <<zqueue, outstanding>>
       ELSE \E result \in zpopmin(zqueue) :
               /\ zqueue' = zqueue \ {result}
               /\ Proceed(p, "dequeue_hset", start(from_dict(result.member), now))
               /\ outstanding' = Claimed(result.member.id)
    /\ UNCHANGED <<cfgVars, extVars, now, nextId, memVars, hprocessing, hcompleted, stats, expiring, swept>>

redis_dequeue_hset(p) ==
    /\ At(p, "dequeue_hset")
    /\ hprocessing' = hset(hprocessing, msg[p].id, to_dict(msg[p]))
    /\ Goto(p, "dequeue_expire", msg[p])
    /\ UNCHANGED <<cfgVars, extVars, now, nextId, ret, memVars, zqueue, hcompleted, stats, expiring, calls, outstanding, swept>>

redis_dequeue_expire(p) ==
    /\ At(p, "dequeue_expire")
    /\ expiring' = expire(expiring, "PROCESSING_KEY", hprocessing)
    /\ Goto(p, "dequeue_hincrby", msg[p])
    /\ UNCHANGED <<cfgVars, extVars, now, nextId, ret, memVars, zqueue, hprocessing, hcompleted, stats, calls, outstanding, swept>>

redis_dequeue_hincrby(p) ==
    /\ At(p, "dequeue_hincrby")
    /\ stats' = hincrby(hincrby(stats, "total_dequeued", 1), "currently_processing", 1)
    /\ Return(p, "dequeue", msg[p].id, "message")
    /\ UNCHANGED <<cfgVars, extVars, now, nextId, memVars, zqueue, hprocessing, hcompleted, expiring, calls, outstanding, swept>>

redis_complete(p, message_id, result) ==
    /\ Start(p)
    /\ IF message_id \notin DOMAIN hprocessing
       THEN Refuse(p, "complete", "False")
       ELSE Proceed(p, "complete_hset", finish(from_dict(hprocessing[message_id]), result, now))
    /\ UNCHANGED <<cfgVars, extVars, now, nextId, memVars, zqueue, hprocessing, hcompleted, stats, expiring, outstanding, swept>>

redis_complete_hset(p) ==
    /\ At(p, "complete_hset")
    /\ hcompleted' = hset(hcompleted, msg[p].id, to_dict(msg[p]))
    /\ Goto(p, "complete_hdel", msg[p])
    /\ UNCHANGED <<cfgVars, extVars, now, nextId, ret, memVars, zqueue, hprocessing, stats, expiring, calls, outstanding, swept>>

redis_complete_hdel(p) ==
    /\ At(p, "complete_hdel")
    /\ hprocessing' = hdel(hprocessing, msg[p].id)
    /\ expiring' = persist(expiring, "PROCESSING_KEY", hprocessing')
    /\ Goto(p, "complete_expire", msg[p])
    /\ UNCHANGED <<cfgVars, extVars, now, nextId, ret, memVars, zqueue, hcompleted, stats, calls, outstanding, swept>>

redis_complete_expire(p) ==
    /\ At(p, "complete_expire")
    /\ expiring' = expire(expiring, "COMPLETED_KEY", hcompleted)
    /\ Goto(p, "complete_hincrby", msg[p])
    /\ UNCHANGED <<cfgVars, extVars, now, nextId, ret, memVars, zqueue, hprocessing, hcompleted, stats, calls, outstanding, swept>>

redis_complete_hincrby(p) ==
    /\ At(p, "complete_hincrby")
    /\ stats' = hincrby(hincrby(stats, "total_completed", 1), "currently_processing", -1)
    /\ Return(p, "complete", msg[p].id, "True")
    /\ UNCHANGED <<cfgVars, extVars, now, nextId, memVars, zqueue, hprocessing, hcompleted, expiring, calls, outstanding, swept>>

redis_fail(p, message_id, error_message) ==
    /\ Start(p)
    /\ IF message_id \notin DOMAIN hprocessing
       THEN Refuse(p, "fail", "False")
       ELSE LET message == count_failure(from_dict(hprocessing[message_id]), error_message)
            IN IF retries_left(message)
               THEN Proceed(p, "fail_zadd", retry(message))
               ELSE Proceed(p, "fail_hset", give_up(message, now))
    /\ UNCHANGED <<cfgVars, extVars, now, nextId, memVars, zqueue, hprocessing, hcompleted, stats, expiring, outstanding, swept>>

redis_fail_zadd(p) ==
    /\ At(p, "fail_zadd")
    /\ zqueue' = zadd(zqueue, to_dict(msg[p]), -PriorityValue(msg[p].priority))
    /\ Goto(p, "fail_zadd_hdel", msg[p])
    /\ outstanding' = Requeued(msg[p].id)
    /\ UNCHANGED <<cfgVars, extVars, now, nextId, ret, memVars, hprocessing, hcompleted, stats, expiring, calls, swept>>

redis_fail_zadd_hdel(p) ==
    /\ At(p, "fail_zadd_hdel")
    /\ hprocessing' = hdel(hprocessing, msg[p].id)
    /\ expiring' = persist(expiring, "PROCESSING_KEY", hprocessing')
    /\ Goto(p, "fail_hincrby", msg[p])
    /\ UNCHANGED <<cfgVars, extVars, now, nextId, ret, memVars, zqueue, hcompleted, stats, calls, outstanding, swept>>

redis_fail_hset(p) ==
    /\ At(p, "fail_hset")
    /\ hcompleted' = hset(hcompleted, msg[p].id, to_dict(msg[p]))
    /\ Goto(p, "fail_hset_hdel", msg[p])
    /\ UNCHANGED <<cfgVars, extVars, now, nextId, ret, memVars, zqueue, hprocessing, stats, expiring, calls, outstanding, swept>>

redis_fail_hset_hdel(p) ==
    /\ At(p, "fail_hset_hdel")
    /\ hprocessing' = hdel(hprocessing, msg[p].id)
    /\ expiring' = persist(expiring, "PROCESSING_KEY", hprocessing')
    /\ Goto(p, "fail_hincrby", msg[p])
    /\ UNCHANGED <<cfgVars, extVars, now, nextId, ret, memVars, zqueue, hcompleted, stats, calls, outstanding, swept>>

redis_fail_hincrby(p) ==
    /\ At(p, "fail_hincrby")
    /\ stats' = hincrby(hincrby(stats, IF msg[p].status = "PENDING" THEN "total_retries" ELSE "total_failed", 1),
                        "currently_processing", -1)
    /\ Return(p, "fail", msg[p].id, "True")
    /\ UNCHANGED <<cfgVars, extVars, now, nextId, memVars, zqueue, hprocessing, hcompleted, expiring, calls, outstanding, swept>>

\* hgetall of the completed hash and the scan for entries older than the
\* cutoff; with none to delete the call returns 0 at once
redis_cleanup_old_messages(p, older_than_hours) ==
    /\ Start(p)
    /\ LET cutoff_time == now - older_than_hours
           old == {i \in DOMAIN hcompleted :
                     /\ hcompleted[i].completed_at # JsonNull
                     /\ fromisoformat(hcompleted[i].completed_at) < cutoff_time}
       IN IF old = {}
          THEN /\ Refuse(p, "cleanup_old_messages", CountName(0))
               /\ UNCHANGED old_message_ids
          ELSE /\ Proceed(p, "cleanup_hdel", NoMessage)
               /\ old_message_ids' = [old_message_ids EXCEPT ![p] = old]
    /\ UNCHANGED <<cfgVars, kept, tripVars, queue2Vars, pairVars, connVars, mock_redis, now, nextId, memVars, zqueue, hprocessing, hcompleted, stats, expiring, outstanding, swept>>

redis_cleanup_hdel(p) ==
    /\ At(p, "cleanup_hdel")
    /\ hcompleted' = hdel_fields(hcompleted, old_message_ids[p])
    /\ expiring' = persist(expiring, "COMPLETED_KEY", hcompleted')
    /\ swept' = swept \cup (old_message_ids[p] \cap DOMAIN hcompleted)
    /\ old_message_ids' = [old_message_ids EXCEPT ![p] = {}]
    /\ Return(p, "cleanup_old_messages", 0, CountName(Cardinality(old_message_ids[p])))
    /\ UNCHANGED <<cfgVars, kept, tripVars, queue2Vars, pairVars, connVars, mock_redis, now, nextId, memVars, zqueue, hprocessing, stats, calls, outstanding>>

\* get_status on the real store, store call by store call.  zrange of the
\* pending set: a member with the id is returned at once
redis_status(p, message_id) ==
    /\ Start(p)
    /\ IF \E e \in zqueue : e.member.id = message_id
       THEN /\ \E e \in zqueue :
                  /\ e.member.id = message_id
                  /\ ret' = Ret("get_status", message_id, e.member.status)
            /\ UNCHANGED <<pc, msg, calls>>
       ELSE Proceed(p, "status_hget", [NoMessage EXCEPT !.id = message_id])
    /\ UNCHANGED <<cfgVars, extVars, now, nextId, memVars, zqueue, hprocessing, hcompleted, stats, expiring, outstanding, swept>>

\* hget of the processing hash
redis_status_hget(p) ==
    /\ At(p, "status_hget")
    /\ IF msg[p].id \in DOMAIN hprocessing
       THEN /\ Return(p, "get_status", msg[p].id, hprocessing[msg[p].id].status)
       ELSE /\ Goto(p, "status_hget_completed", msg[p])
            /\ UNCHANGED ret
    /\ UNCHANGED <<cfgVars, extVars, now, nextId, memVars, zqueue, hprocessing, hcompleted, stats, expiring, calls, outstanding, swept>>

\* hget of the completed hash; None when the id is not there either
redis_status_hget_completed(p) ==
    /\ At(p, "status_hget_completed")
    /\ IF msg[p].id \in DOMAIN hcompleted
       THEN Return(p, "get_status", msg[p].id, hcompleted[msg[p].id].status)
       ELSE Return(p, "get_status", msg[p].id, "None")
    /\ UNCHANGED <<cfgVars, extVars, now, nextId, memVars, zqueue, hprocessing, hcompleted, stats, expiring, calls, outstanding, swept>>

\* the method a store call belongs to
OpOf(label) ==
    CASE label \in {"enqueue_zadd", "enqueue_hincrby"} -> "enqueue"
      [] label \in {"dequeue_hset", "dequeue_expire", "dequeue_hincrby"} -> "dequeue"
      [] label \in {"complete_hset", "complete_hdel", "complete_expire", "complete_hincrby"} -> "complete"
      [] label \in {"fail_zadd", "fail_zadd_hdel", "fail_hset", "fail_hset_hdel", "fail_hincrby"} -> "fail"
      [] label \in {"status_hget", "status_hget_completed"} -> "get_status"
      [] OTHER -> "cleanup_old_messages"

\* the store call caller p is about to issue raises (the connection is
\* lost): the method's except clause logs the error and raises it to the
\* caller, and the store calls that were to follow are not made
redis_raise(p) ==
    /\ backend = "redis"
    /\ pc[p] # "idle"
    /\ failures < MaxFailures
    /\ failures' = failures + 1
    /\ Return(p, OpOf(pc[p]), msg[p].id, "ConnectionError")
    /\ old_message_ids' = [old_message_ids EXCEPT ![p] = {}]
    /\ UNCHANGED <<cfgVars, kept, tripVars, queue2Vars, pairVars, _redis, _mock_redis, _use_mock, initializations, mock_redis, now, nextId,
                   memVars, zqueue, hprocessing, hcompleted, stats, expiring, calls, outstanding, swept>>

\* ------------------------------------------------ MockRedis (mock_redis.py)
\* a sorted set is a dict member -> score, which keeps the order in which
\* the members were first added: zadd updates the dict, so a new member goes
\* to the end and a member already there keeps its place
mock_zadd(z, member, score) ==
    IF \E k \in 1..Len(z) : z[k].member = member
    THEN [k \in 1..Len(z) |-> IF z[k].member = member
                              THEN [member |-> member, score |-> score] ELSE z[k]]
    ELSE Append(z, [member |-> member, score |-> score])

mock_zcard(z) == Len(z)

\* zpopmin(count=1) sorts the items by score with a stable sort and takes the
\* first: the position of the earliest added member of lowest score
mock_zpopmin(z) ==
    CHOOSE k \in 1..Len(z) :
       /\ \A j \in 1..Len(z) : z[k].score <= z[j].score
       /\ \A j \in 1..(k - 1) : z[j].score > z[k].score

\* the dict without the popped member
mock_zrem(z, k) == [j \in 1..(Len(z) - 1) |-> IF j < k THEN z[j] ELSE z[j + 1]]

\* ------------------------- RedisMessageQueue in fallback mode (_use_mock)
\* one caller at a time: each method runs from its first to its last mock
\* store call without another method in between
Fallback ==
    /\ backend = "redis"
    /\ _use_mock
    /\ \A p \in Procs : pc[p] = "idle"

mock_enqueue(payload, priority) ==
    /\ Fallback
    /\ IF is_full(mock_zcard(mock_redis.QUEUE_KEY))
       THEN /\ ret' = Ret("enqueue", 0, "ValueError")
            /\ UNCHANGED <<nextId, mock_redis>>
       ELSE LET message == QueueMessage(nextId, payload, priority, now)
            IN /\ mock_redis' = [mock_redis EXCEPT
                              !.QUEUE_KEY = mock_zadd(@, to_dict(message), -PriorityValue(message.priority)),
                              !.STATS_KEY = hincrby(@, "total_enqueued", 1)]
               /\ nextId' = nextId + 1
               /\ ret' = Ret("enqueue", message.id, "id")
    /\ UNCHANGED <<cfgVars, kept, tripVars, queue2Vars, pairVars, old_message_ids, connVars, now, memVars, redisVars, outstanding, swept>>

mock_dequeue ==
    /\ Fallback
    /\ IF mock_redis.QUEUE_KEY = <<>>
       THEN /\ ret' = Ret("dequeue", 0, "None")
            /\ UNCHANGED <<mock_redis, outstanding>>
       ELSE LET k == mock_zpopmin(mock_redis.QUEUE_KEY)
                message == start(from_dict(mock_redis.QUEUE_KEY[k].member), now)
            IN /\ mock_redis' = [mock_redis EXCEPT
                              !.QUEUE_KEY = mock_zrem(@, k),
                              !.PROCESSING_KEY = hset(@, message.id, to_dict(message)),
                              !.STATS_KEY = hincrby(hincrby(@, "total_dequeued", 1), "currently_processing", 1)]
               /\ ret' = Ret("dequeue", message.id, "message")
               /\ outstanding' = Claimed(message.id)
    /\ UNCHANGED <<cfgVars, kept, tripVars, queue2Vars, pairVars, old_message_ids, connVars, now, nextId, memVars, redisVars, swept>>

mock_complete(message_id, result) ==
    /\ Fallback
    /\ IF message_id \notin DOMAIN mock_redis.PROCESSING_KEY
       THEN /\ ret' = Ret("complete", 0, "False")
            /\ UNCHANGED mock_redis
       ELSE LET message == finish(from_dict(mock_redis.PROCESSING_KEY[message_id]), result, now)
            IN /\ mock_redis' = [mock_redis EXCEPT
                              !.COMPLETED_KEY = hset(@, message_id, to_dict(message)),
                              !.PROCESSING_KEY = hdel(@, message_id),
                              !.STATS_KEY = hincrby(hincrby(@, "total_completed", 1), "currently_processing", -1)]
               /\ ret' = Ret("complete", message_id, "True")
    /\ UNCHANGED <<cfgVars, kept, tripVars, queue2Vars, pairVars, old_message_ids, connVars, now, nextId, memVars, redisVars, outstanding, swept>>

mock_fail(message_id, error_message) ==
    /\ Fallback
    /\ IF message_id \notin DOMAIN mock_redis.PROCESSING_KEY
       THEN /\ ret' = Ret("fail", 0, "False")
            /\ UNCHANGED <<mock_redis, outstanding>>
       ELSE LET message == count_failure(from_dict(mock_redis.PROCESSING_KEY[message_id]), error_message)
            IN /\ IF retries_left(message)
                  THEN /\ mock_redis' = [mock_redis EXCEPT
                                     !.QUEUE_KEY = mock_zadd(@, to_dict(retry(message)),
                                                             -PriorityValue(message.priority)),
                                     !.PROCESSING_KEY = hdel(@, message_id),
                                     !.STATS_KEY = hincrby(hincrby(@, "total_retries", 1), "currently_processing", -1)]
                       /\ outstanding' = Requeued(message_id)
                  ELSE /\ mock_redis' = [mock_redis EXCEPT
                                     !.COMPLETED_KEY = hset(@, message_id, to_dict(give_up(message, now))),
                                     !.PROCESSING_KEY = hdel(@, message_id),
                                     !.STATS_KEY = hincrby(hincrby(@, "total_failed", 1), "currently_processing", -1)]
                       /\ UNCHANGED outstanding
               /\ ret' = Ret("fail", message_id, "True")
    /\ UNCHANGED <<cfgVars, kept, tripVars, queue2Vars, pairVars, old_message_ids, connVars, now, nextId, memVars, redisVars, swept>>

\* get_status in fallback mode: zrange of the pending dict is searched first,
\* then the processing hash, then the completed hash; NoMessage for None
mock_get_status(d, message_id) ==
    IF \E k \in 1..Len(d.QUEUE_KEY) : d.QUEUE_KEY[k].member.id = message_id
    THEN d.QUEUE_KEY[CHOOSE k \in 1..Len(d.QUEUE_KEY) :
                       /\ d.QUEUE_KEY[k].member.id = message_id
                       /\ \A j \in 1..(k - 1) : d.QUEUE_KEY[j].member.id # message_id].member
    ELSE IF message_id \in DOMAIN d.PROCESSING_KEY THEN d.PROCESSING_KEY[message_id]
    ELSE IF message_id \in DOMAIN d.COMPLETED_KEY THEN d.COMPLETED_KEY[message_id]
    ELSE to_dict(NoMessage)

\* get_queue_stats in fallback mode
mock_get_queue_stats(d) ==
    [pending_count |-> mock_zcard(d.QUEUE_KEY),
     processing_count |-> Cardinality(DOMAIN d.PROCESSING_KEY),
     completed_count |-> Cardinality(DOMAIN d.COMPLETED_KEY),
     max_size |-> max_size,
     oldest_pending |-> JsonNull,
     longest_processing |-> 0,
     total_enqueued |-> d.STATS_KEY.total_enqueued,
     total_dequeued |-> d.STATS_KEY.total_dequeued,
     total_completed |-> d.STATS_KEY.total_completed,
     total_failed |-> d.STATS_KEY.total_failed,
     total_retries |-> d.STATS_KEY.total_retries,
     currently_processing |-> d.STATS_KEY.currently_processing]

\* cleanup_old_messages has no mock branch: it runs initialize() again when
\* there is no client (no client library), then calls hgetall on self._redis,
\* which is None (AttributeError) or a client whose store does not answer
\* (ConnectionError); the exception is raised to the caller
fallback_cleanup_old_messages(older_than_hours) ==
    /\ Fallback
    /\ IF _redis = "None"
       THEN /\ connect
            /\ ret' = Ret("cleanup_old_messages", 0, "AttributeError")
       ELSE /\ UNCHANGED connVars
            /\ ret' = Ret("cleanup_old_messages", 0, "ConnectionError")
    /\ UNCHANGED <<cfgVars, kept, tripVars, queue2Vars, pairVars, old_message_ids, mock_redis, now, nextId, memVars, redisVars, outstanding, swept>>

\* health_check: with _use_mock set it reports the mock; otherwise it runs
\* initialize() when there is no client yet and pings self._redis, and any
\* exception gives the unhealthy report
health_check ==
    /\ backend = "redis"
    /\ \A p \in Procs : pc[p] = "idle"
    /\ IF _use_mock
       THEN /\ ret' = Ret("health_check", 0, "healthy, using_mock")
            /\ UNCHANGED connVars
       ELSE /\ IF _redis = "None" THEN connect ELSE UNCHANGED connVars
            /\ ret' = Ret("health_check", 0,
                          IF _redis' # "None" /\ reachable
                          THEN "healthy, redis_connected"
                          ELSE "unhealthy")
    /\ UNCHANGED <<cfgVars, kept, tripVars, queue2Vars, pairVars, old_message_ids, mock_redis, now, nextId, memVars, redisVars, outstanding, swept>>

\* the store deletes a key whose time to live has run out
key_expires ==
    /\ backend = "redis"
    /\ \E key \in expiring :
          /\ expiring' = expiring \ {key}
          /\ IF key = "PROCESSING_KEY"
             THEN hprocessing' = <<>> /\ UNCHANGED hcompleted
             ELSE hcompleted' = <<>> /\ UNCHANGED hprocessing
    /\ UNCHANGED <<cfgVars, extVars, now, nextId, ret, memVars, zqueue, stats, pc, msg, calls, outstanding, swept>>

\* ------------------------------------- two RedisMessageQueue objects
\* A second RedisMessageQueue constructed in the same process. Its
\* initialize() runs `from app.mock_redis import mock_redis` like the first
\* one's: both objects' _mock_redis is the one module-level MockRedis, and
\* both use the same four key names.

\* the second object's initialize(), with no client library or no store
queue2_initialize ==
    /\ backend = "redis"
    /\ queue2._redis = "None" /\ queue2._mock_redis = "None"
    /\ ~REDIS_AVAILABLE \/ ~reachable
    /\ queue2' = [_redis |-> IF REDIS_AVAILABLE THEN "Redis" ELSE "None",
                  _mock_redis |-> "mock_redis",
                  _use_mock |-> TRUE]
    /\ UNCHANGED <<cfgVars, kept, tripVars, queue2_ids, pairVars, old_message_ids, connVars, mock_redis,
                   now, nextId, ret, memVars, redisVars, outstanding, swept>>

\* enqueue called on the second object
queue2_enqueue(payload, priority) ==
    /\ backend = "redis"
    /\ queue2._use_mock
    /\ IF is_full(mock_zcard(mock_redis.QUEUE_KEY))
       THEN /\ ret' = Ret("queue2.enqueue", 0, "ValueError")
            /\ UNCHANGED <<nextId, mock_redis, queue2_ids>>
       ELSE LET message == QueueMessage(nextId, payload, priority, now)
            IN /\ mock_redis' = [mock_redis EXCEPT
                              !.QUEUE_KEY = mock_zadd(@, to_dict(message), -PriorityValue(message.priority)),
                              !.STATS_KEY = hincrby(@, "total_enqueued", 1)]
               /\ nextId' = nextId + 1
               /\ queue2_ids' = queue2_ids \cup {message.id}
               /\ ret' = Ret("queue2.enqueue", message.id, "id")
    /\ UNCHANGED <<cfgVars, kept, tripVars, queue2, pairVars, old_message_ids, connVars, now, memVars,
                   redisVars, outstanding, swept>>

\* dequeue called on the second object
queue2_dequeue ==
    /\ backend = "redis"
    /\ queue2._use_mock
    /\ IF mock_redis.QUEUE_KEY = <<>>
       THEN /\ ret' = Ret("queue2.dequeue", 0, "None")
            /\ UNCHANGED <<mock_redis, outstanding>>
       ELSE LET k == mock_zpopmin(mock_redis.QUEUE_KEY)
                message == start(from_dict(mock_redis.QUEUE_KEY[k].member), now)
            IN /\ mock_redis' = [mock_redis EXCEPT
                              !.QUEUE_KEY = mock_zrem(@, k),
                              !.PROCESSING_KEY = hset(@, message.id, to_dict(message)),
                              !.STATS_KEY = hincrby(hincrby(@, "total_dequeued", 1), "currently_processing", 1)]
               /\ ret' = Ret("queue2.dequeue", message.id, "message")
               /\ outstanding' = Claimed(message.id)
    /\ UNCHANGED <<cfgVars, kept, tripVars, queue2Vars, pairVars, old_message_ids, connVars, now, nextId,
                   memVars, redisVars, swept>>

\* get_status and get_queue_stats called on the second object read the
\* MockRedis its _mock_redis refers to
queue2_get_status(message_id) == mock_get_status(mock_redis, message_id)
queue2_get_queue_stats == mock_get_queue_stats(mock_redis)

\* two objects constructed where the store cannot be reached
InitTwo ==
    /\ backend = "redis"
    /\ max_size \in MaxSizes
    /\ callers = 1
    /\ REDIS_AVAILABLE \in BOOLEAN
    /\ reachable = FALSE
    /\ InitCommon
    /\ original = NoMessage

NextTwo ==
    \/ Tick
    \/ initialize
    \/ queue2_initialize
    \/ /\ nextId <= MaxJobs \/ is_full(mock_zcard(mock_redis.QUEUE_KEY))
       /\ \E payload \in Payloads, priority \in RedisPriorities : mock_enqueue(payload, priority)
    \/ /\ nextId <= MaxJobs \/ is_full(mock_zcard(mock_redis.QUEUE_KEY))
       /\ \E payload \in Payloads, priority \in RedisPriorities : queue2_enqueue(payload, priority)
    \/ mock_dequeue
    \/ queue2_dequeue
    \/ \E message_id \in AckIds, result \in Results : mock_complete(message_id, result)
    \/ \E message_id \in AckIds, error_message \in Errors : mock_fail(message_id, error_message)

\* two durable queue objects that both fell back
SpecTwo == InitTwo /\ [][NextTwo]_vars

\* ----------------------------------------------------------- specifications
NextMem ==
    \/ Tick
    \/ /\ nextId <= MaxJobs \/ is_full(Len(queue))
       /\ \E payload \in Payloads, priority \in MemPriorities : enqueue(payload, priority)
    \/ dequeue
    \/ \E message_id \in AckIds, result \in Results : complete(message_id, result)
    \/ \E message_id \in AckIds, error_message \in Errors : fail(message_id, error_message)
    \/ \E older_than_hours \in SweepAges : cleanup_old_messages(older_than_hours)

\* the calls of the callers, and the clock
NextCalls ==
    \/ Tick
    \/ initialize
    \/ \E p \in Procs :
          \/ /\ nextId <= MaxJobs \/ is_full(zcard(zqueue))
             /\ \E payload \in Payloads, priority \in RedisPriorities : redis_enqueue(p, payload, priority)
          \/ redis_enqueue_zadd(p)
          \/ redis_enqueue_hincrby(p)
          \/ redis_dequeue(p)
          \/ redis_dequeue_hset(p)
          \/ redis_dequeue_expire(p)
          \/ redis_dequeue_hincrby(p)
          \/ \E message_id \in AckIds, result \in Results : redis_complete(p, message_id, result)
          \/ redis_complete_hset(p)
          \/ redis_complete_hdel(p)
          \/ redis_complete_expire(p)
          \/ redis_complete_hincrby(p)
          \/ \E message_id \in AckIds, error_message \in Errors : redis_fail(p, message_id, error_message)
          \/ redis_fail_zadd(p)
          \/ redis_fail_zadd_hdel(p)
          \/ redis_fail_hset(p)
          \/ redis_fail_hset_hdel(p)
          \/ redis_fail_hincrby(p)
          \/ \E older_than_hours \in SweepAges : redis_cleanup_old_messages(p, older_than_hours)
          \/ redis_cleanup_hdel(p)

\* enqueue has returned id i to its caller
Issued(i) ==
    /\ i < nextId
    /\ ~\E p \in Procs : pc[p] \in {"enqueue_zadd", "enqueue_hincrby"} /\ msg[p].id = i

\* the calls of the callers with get_status among them; a caller asks for
\* the status of an id that enqueue has returned
NextStatus ==
    \/ NextCalls
    \/ \E p \in Procs :
          \/ \E message_id \in AckIds : Issued(message_id) /\ redis_status(p, message_id)
          \/ redis_status_hget(p)
          \/ redis_status_hget_completed(p)

\* the durable backend with one caller and a store whose calls may fail
InitRaise ==
    /\ backend = "redis"
    /\ max_size \in MaxSizes
    /\ callers = 1
    /\ REDIS_AVAILABLE = TRUE
    /\ reachable = TRUE
    /\ InitCommon
    /\ original = NoMessage

NextRaise ==
    \/ NextCalls
    \/ \E p \in Procs : redis_raise(p)

\* the in-process backend with a caller that keeps what it is given
NextAlias ==
    \/ Tick
    \/ /\ nextId <= MaxJobs
       /\ \E payload \in Payloads, priority \in RedisPriorities : enqueue(payload, priority)
    \/ dequeue
    \/ \E message_id \in AckIds, result \in Results : complete(message_id, result)
    \/ \E message_id \in AckIds, error_message \in PairErrors : fail(message_id, error_message)
    \/ hold_payload
    \/ hold_message
    \/ \E message_id \in AckIds : hold_view(message_id)
    \/ \E doc \in Assignments : assign(doc)

NextRedis ==
    \/ key_expires
    \/ NextCalls

\* ------------------------------- the two backends side by side, call by call
\* A MessageQueue and a RedisMessageQueue (one caller) are given the same
\* calls in the same order at the same clock readings: each call goes to the
\* MessageQueue first (backend = "memory"), then to the RedisMessageQueue
\* (backend = "redis").  Both number their messages alike: the k-th message
\* constructed has id k in either.
InitPair ==
    /\ backend = "memory"
    /\ max_size \in MaxSizes
    /\ callers = 1
    /\ REDIS_AVAILABLE \in BOOLEAN
    /\ reachable \in BOOLEAN
    /\ REDIS_AVAILABLE \/ ~reachable
    /\ InitCommon
    /\ original = NoMessage

PairCalls ==
    {Call("enqueue", 0, priority, NoResult, NoError, 0, nextId) : priority \in RedisPriorities}
    \cup {Call("dequeue", 0, "LOW", NoResult, NoError, 0, nextId)}
    \cup {Call("complete", message_id, "LOW", NoResult, NoError, 0, nextId) : message_id \in AckIds}
    \cup {Call("fail", message_id, "LOW", NoResult, error_message, 0, nextId) :
             message_id \in AckIds, error_message \in PairErrors}
    \cup {Call("cleanup_old_messages", 0, "LOW", NoResult, NoError, older_than_hours, nextId) :
             older_than_hours \in SweepAges}

\* the next call is chosen
Issue ==
    /\ backend = "memory"
    /\ call = NoCall
    /\ calls < MaxCalls
    /\ \E c \in PairCalls :
          /\ c.op = "enqueue" => nextId <= MaxJobs \/ is_full(Len(queue))
          /\ c.op = "cleanup_old_messages" => ~_use_mock
          /\ call' = c
    /\ ret' = Ret("call", 0, "None")
    /\ UNCHANGED <<cfgVars, kept, tripVars, queue2Vars, old_message_ids, connVars, mock_redis, mret, now, nextId, memVars, redisVars, outstanding, swept>>

\* the MessageQueue has answered: the call goes to the RedisMessageQueue
Handover ==
    /\ backend = "memory"
    /\ call # NoCall
    /\ ret.op # "call"
    /\ backend' = "redis"
    /\ mret' = ret
    /\ ret' = Ret("call", 0, "None")
    /\ call' = [call EXCEPT !.last = nextId]
    /\ nextId' = call.first
    /\ UNCHANGED <<max_size, callers, REDIS_AVAILABLE, reachable, kept, tripVars, queue2Vars, old_message_ids, connVars, mock_redis,
                   now, memVars, redisVars, outstanding, swept>>

\* both have answered
Answered ==
    /\ backend = "redis"
    /\ call # NoCall
    /\ ret.op # "call"
    /\ \A p \in Procs : pc[p] = "idle"

Settle ==
    /\ Answered
    /\ backend' = "memory"
    /\ call' = NoCall
    /\ nextId' = IF call.last > nextId THEN call.last ELSE nextId
    /\ UNCHANGED <<max_size, callers, REDIS_AVAILABLE, reachable, kept, tripVars, queue2Vars, old_message_ids, connVars, mock_redis,
                   mret, now, ret, memVars, redisVars, outstanding, swept>>

\* the call is made
Called(op) == call # NoCall /\ call.op = op /\ ret.op = "call"

NextPair ==
    \/ call = NoCall /\ Tick
    \/ Issue
    \/ Called("enqueue") /\ enqueue(Payloads1, call.priority)
    \/ Called("dequeue") /\ dequeue
    \/ Called("complete") /\ complete(call.message_id, call.result)
    \/ Called("fail") /\ fail(call.message_id, call.error_message)
    \/ Called("cleanup_old_messages") /\ cleanup_old_messages(call.older_than_hours)
    \/ Handover
    \/ initialize
    \/ Called("enqueue") /\ redis_enqueue("c1", Payloads1, call.priority)
    \/ redis_enqueue_zadd("c1")
    \/ redis_enqueue_hincrby("c1")
    \/ Called("dequeue") /\ redis_dequeue("c1")
    \/ redis_dequeue_hset("c1")
    \/ redis_dequeue_expire("c1")
    \/ redis_dequeue_hincrby("c1")
    \/ Called("complete") /\ redis_complete("c1", call.message_id, call.result)
    \/ redis_complete_hset("c1")
    \/ redis_complete_hdel("c1")
    \/ redis_complete_expire("c1")
    \/ redis_complete_hincrby("c1")
    \/ Called("fail") /\ redis_fail("c1", call.message_id, call.error_message)
    \/ redis_fail_zadd("c1")
    \/ redis_fail_zadd_hdel("c1")
    \/ redis_fail_hset("c1")
    \/ redis_fail_hset_hdel("c1")
    \/ redis_fail_hincrby("c1")
    \/ Called("cleanup_old_messages") /\ redis_cleanup_old_messages("c1", call.older_than_hours)
    \/ redis_cleanup_hdel("c1")
    \/ Called("enqueue") /\ mock_enqueue(Payloads1, call.priority)
    \/ Called("dequeue") /\ mock_dequeue
    \/ Called("complete") /\ mock_complete(call.message_id, call.result)
    \/ Called("fail") /\ mock_fail(call.message_id, call.error_message)
    \/ Settle

\* the durable backend with one caller, whatever the store and the client
\* library are like when it is initialized
InitFallback ==
    /\ backend = "redis"
    /\ max_size \in MaxSizes
    /\ callers = 1
    /\ REDIS_AVAILABLE \in BOOLEAN
    /\ reachable \in BOOLEAN
    /\ REDIS_AVAILABLE \/ ~reachable
    /\ InitCommon
    /\ original = NoMessage

NextFallback ==
    \/ NextCalls
    \/ health_check
    \/ /\ nextId <= MaxJobs \/ is_full(mock_zcard(mock_redis.QUEUE_KEY))
       /\ \E payload \in Payloads, priority \in RedisPriorities : mock_enqueue(payload, priority)
    \/ mock_dequeue
    \/ \E message_id \in AckIds, result \in Results : mock_complete(message_id, result)
    \/ \E message_id \in AckIds, error_message \in Errors : mock_fail(message_id, error_message)
    \/ \E older_than_hours \in SweepAges : fallback_cleanup_old_messages(older_than_hours)

\* runs of the in-process backend that only admit and claim, with room for
\* every job
InitOrder ==
    /\ backend = "memory"
    /\ max_size = MaxAdmits
    /\ callers = 1
    /\ REDIS_AVAILABLE = TRUE
    /\ reachable = TRUE
    /\ InitCommon
    /\ original = NoMessage

NextOrder ==
    \/ Tick
    \/ /\ nextId <= MaxAdmits
       /\ \E payload \in Payloads, priority \in Priorities : enqueue(payload, priority)
    \/ dequeue

Init == InitMem \/ InitRedis
Next == NextMem \/ NextRedis

\* the in-process backend
SpecMem == InitMem /\ [][NextMem]_vars
\* the worker loop: it claims a job when one is pending and acknowledges
\* every job it has claimed, with complete or with fail
Worker ==
    \/ queue # <<>> /\ dequeue
    \/ \E message_id \in DOMAIN processing :
          \/ \E result \in Results : complete(message_id, result)
          \/ \E error_message \in Errors : fail(message_id, error_message)

\* the in-process backend with a worker that keeps running
SpecWorker == InitMem /\ [][NextMem]_vars /\ WF_vars(Worker)
\* the durable backend with callers that also ask for the status of jobs
SpecStatus == InitRedis /\ [][NextStatus]_vars

\* the durable backend on a store whose calls may fail
SpecRaise == InitRaise /\ [][NextRaise]_vars

\* the in-process backend with a caller that keeps references
SpecAlias == InitMem /\ [][NextAlias]_vars

\* the durable backend in runs short enough for no key to expire
SpecCalls == InitRedis /\ [][NextCalls]_vars
\* a MessageQueue and a RedisMessageQueue given the same calls
SpecPair == InitPair /\ [][NextPair]_vars
\* the durable backend with one caller, in real and in fallback mode
SpecFallback == InitFallback /\ [][NextFallback]_vars
\* the durable backend
SpecRedis == InitRedis /\ [][NextRedis]_vars
\* either backend
Spec == Init /\ [][Next]_vars
\* admissions and claims only
SpecOrder == InitOrder /\ [][NextOrder]_vars

\* ------------------------------------------------------------------ claims
\* job a is served before job b: a has the higher priority, or the same
\* priority and was admitted first (ids are handed out in admission order)
ServedBefore(a, b) ==
    \/ PriorityValue(a.priority) > PriorityValue(b.priority)
    \/ /\ PriorityValue(a.priority) = PriorityValue(b.priority)
       /\ a.id < b.id

\* C1: in runs that only admit and claim, every claim that returns a job
\* returns the one that is served before each job it leaves pending, so any
\* series of claims returns jobs in non-increasing priority and, within a
\* priority, in admission order.
C1_PriorityThenFifo ==
    [][(dequeue /\ queue # <<>>) =>
         /\ ret'.id = queue[1].id
         /\ \A k \in 1..Len(queue') : ServedBefore(processing'[ret'.id], queue'[k])]_vars

\* LOW, URGENT, NORMAL were admitted in that order; URGENT was claimed, the
\* claim that just returned gave NORMAL, and LOW is still pending
C1_Witness ==
    /\ ret = Ret("dequeue", 3, "message")
    /\ DOMAIN processing = {2, 3}
    /\ processing[2].priority = "URGENT"
    /\ processing[3].priority = "NORMAL"
    /\ Len(queue) = 1
    /\ queue[1].id = 1
    /\ queue[1].priority = "LOW"

\* every message the in-process backend holds
Held ==
    {queue[k] : k \in 1..Len(queue)}
      \cup {processing[i] : i \in DOMAIN processing}
      \cup {completed[i] : i \in DOMAIN completed}

\* the status of job i as the containers record it, ABSENT when none holds it
StatusOf(q, p, c, i) ==
    IF i \in QueueIds(q) \cup DOMAIN p \cup DOMAIN c THEN lookup(q, p, c, i).status ELSE "ABSENT"

\* C4: complete and fail called with an id that is not in the processing map
\* (never admitted, still pending, or already finished) return False and
\* change nothing.
C4_AckNotInFlight ==
    [][\A message_id \in AckIds :
         message_id \notin DOMAIN processing =>
            /\ \A result \in Results :
                  complete(message_id, result) =>
                     ret'.val = "False" /\ UNCHANGED <<memVars, nextId, outstanding, swept>>
            /\ \A error_message \in Errors :
                  fail(message_id, error_message) =>
                     ret'.val = "False" /\ UNCHANGED <<memVars, nextId, outstanding, swept>>]_vars

\* an acknowledgement was just refused while one job is pending, the other
\* is finished and none is being processed
C4_Witness ==
    /\ backend = "memory"
    /\ ret.op \in {"complete", "fail"}
    /\ ret.val = "False"
    /\ processing = <<>>
    /\ Len(queue) = 1
    /\ Cardinality(DOMAIN completed) = 1

\* the status changes of the lifecycle and the method that makes each
LegalMoves ==
    {<<"ABSENT", "PENDING", "enqueue">>,
     <<"PENDING", "PROCESSING", "dequeue">>,
     <<"PROCESSING", "COMPLETED", "complete">>,
     <<"PROCESSING", "FAILED", "fail">>,
     <<"PROCESSING", "PENDING", "fail">>,
     <<"COMPLETED", "ABSENT", "cleanup_old_messages">>,
     <<"FAILED", "ABSENT", "cleanup_old_messages">>}

\* C5: a job starts as PENDING and its status only ever changes from PENDING
\* to PROCESSING (dequeue), from PROCESSING to COMPLETED (complete), from
\* PROCESSING to FAILED (fail with no retry left) and from PROCESSING to
\* PENDING (fail with a retry left); no job is ever CANCELLED.  Finished
\* jobs leave only through cleanup_old_messages.
C5_Lifecycle ==
    [][\A i \in Ids :
         LET before == StatusOf(queue, processing, completed, i)
             after == StatusOf(queue', processing', completed', i)
             message == lookup(queue', processing', completed', i)
         IN /\ after # "CANCELLED"
            /\ before # after =>
                  /\ <<before, after, ret'.op>> \in LegalMoves
                  /\ (before = "PROCESSING" /\ after = "PENDING") =>
                        message.retry_count < message.max_retries
                  /\ after = "FAILED" => message.retry_count >= message.max_retries]_vars

\* one job failed for good and the other was retried and then completed
C5_Witness ==
    /\ backend = "memory"
    /\ \E i, j \in DOMAIN completed :
          /\ completed[i].status = "FAILED"
          /\ completed[j].status = "COMPLETED"
          /\ completed[j].retry_count > 0

\* number of places that hold job i
Occurrences(i) ==
    Cardinality({k \in 1..Len(queue) : queue[k].id = i})
      + (IF i \in DOMAIN processing THEN 1 ELSE 0)
      + (IF i \in DOMAIN completed THEN 1 ELSE 0)

\* C6: every admitted job that cleanup has not deleted is in exactly one of
\* the pending list, the processing map and the completed map, at most once
\* in the pending list, and its status agrees with the container: PENDING
\* in the list, PROCESSING in the processing map, COMPLETED or FAILED in the
\* completed map.
C6_OneContainer ==
    /\ \A i \in Ids :
          Occurrences(i) = (IF i < nextId /\ i \notin swept THEN 1 ELSE 0)
    /\ \A k \in 1..Len(queue) : queue[k].status = "PENDING"
    /\ \A i \in DOMAIN processing :
          processing[i].id = i /\ processing[i].status = "PROCESSING"
    /\ \A i \in DOMAIN completed :
          completed[i].id = i /\ completed[i].status \in {"COMPLETED", "FAILED"}

\* one job is back in the pending list after a failure while the other is
\* being processed
C6_Witness ==
    /\ backend = "memory"
    /\ Len(queue) = 1
    /\ queue[1].retry_count > 0
    /\ Cardinality(DOMAIN processing) = 1

\* C7: a message carries a completed_at time exactly when its status is
\* COMPLETED or FAILED.
C7_CompletedAt ==
    \A m \in Held : (m.completed_at # NoTime) <=> (m.status \in {"COMPLETED", "FAILED"})

\* a failed job carries the time it failed while a retried job, pending
\* again, carries none
C7_Witness ==
    /\ backend = "memory"
    /\ \E i \in DOMAIN completed :
          completed[i].status = "FAILED" /\ completed[i].completed_at = now
    /\ Len(queue) = 1
    /\ queue[1].retry_count > 0

\* C8: retry_count never exceeds max_retries, and a message whose
\* retry_count has reached max_retries is FAILED.
C8_RetryCeiling ==
    \A m \in Held :
       /\ m.retry_count <= m.max_retries
       /\ m.retry_count = m.max_retries => m.status = "FAILED"

\* a job whose retry_count reached max_retries, next to one that has one
\* retry left and is being processed
C8_Witness ==
    /\ backend = "memory"
    /\ \E i \in DOMAIN completed : completed[i].retry_count = max_retries
    /\ \E i \in DOMAIN processing : processing[i].retry_count = max_retries - 1

\* C2: a job that a dequeue has taken to return it is not taken by another
\* dequeue until fail has put it back into the pending set: no job is handed
\* out twice in between.
C2_ClaimExclusive == \A i \in Ids : outstanding[i] <= 1

\* ids of the pending members of the store
PendingIds(z) == {e.member.id : e \in z}

\* in-process backend: a new job counts no failure, dequeue keeps the count,
\* and a fail that finds the job being processed returns True, adds one to
\* the count, and puts the job back as PENDING while the new count is below
\* max_retries, else files it as FAILED, out of the pending list
C3_Memory ==
    /\ \A payload \in Payloads, priority \in Priorities :
          (enqueue(payload, priority) /\ ret'.val = "id") =>
             lookup(queue', processing', completed', ret'.id).retry_count = 0
    /\ (dequeue /\ queue # <<>>) =>
          processing'[ret'.id].retry_count = queue[1].retry_count
    /\ \A message_id \in AckIds, error_message \in Errors :
          (fail(message_id, error_message) /\ message_id \in DOMAIN processing) =>
             LET k == processing[message_id].retry_count + 1
                 after == lookup(queue', processing', completed', message_id)
             IN /\ ret' = Ret("fail", message_id, "True")
                /\ after.retry_count = k
                /\ message_id \notin DOMAIN processing'
                /\ IF k < max_retries
                   THEN /\ after.status = "PENDING"
                        /\ message_id \in QueueIds(queue')
                        /\ message_id \notin DOMAIN completed'
                   ELSE /\ k = max_retries
                        /\ after.status = "FAILED"
                        /\ message_id \in DOMAIN completed'
                        /\ message_id \notin QueueIds(queue')
    /\ \A i \in Ids :
          StatusOf(queue, processing, completed, i) = "FAILED" =>
             StatusOf(queue', processing', completed', i) \in {"FAILED", "ABSENT"}

\* durable backend, whatever the interleaving: a fail that finds the job in
\* the processing hash works on a copy whose count is one more than the
\* stored one, takes the retry path while that is below max_retries and the
\* FAILED path when it equals max_retries, writes that copy, and returns
\* True; dequeue keeps the count; no pending member has used up its retries
C3_Redis ==
    \A p \in Procs :
       /\ \A message_id \in AckIds, error_message \in Errors :
             (redis_fail(p, message_id, error_message) /\ message_id \in DOMAIN hprocessing) =>
                LET k == hprocessing[message_id].retry_count + 1
                IN /\ msg'[p].id = message_id
                   /\ msg'[p].retry_count = k
                   /\ IF k < max_retries
                      THEN pc'[p] = "fail_zadd" /\ msg'[p].status = "PENDING"
                      ELSE k = max_retries /\ pc'[p] = "fail_hset" /\ msg'[p].status = "FAILED"
       /\ redis_fail_zadd(p) =>
             [member |-> to_dict(msg[p]), score |-> -PriorityValue(msg[p].priority)] \in zqueue'
       /\ redis_fail_hset(p) =>
             /\ hcompleted'[msg[p].id] = to_dict(msg[p])
             /\ hcompleted'[msg[p].id].status = "failed"
             /\ hcompleted'[msg[p].id].retry_count = max_retries
       /\ redis_fail_hincrby(p) => ret' = Ret("fail", msg[p].id, "True")
       /\ \A e \in zqueue :
             (redis_dequeue(p) /\ zqueue' = zqueue \ {e}) =>
                msg'[p].retry_count = e.member.retry_count
       /\ redis_dequeue_hset(p) =>
             hprocessing'[msg[p].id].retry_count = msg[p].retry_count
       /\ \A e \in zqueue' :
             e.member.status = "pending" /\ e.member.retry_count < max_retries

\* durable backend used by one caller at a time: when fail returns, the job
\* is pending with the new count, or it is FAILED and not pending; it is no
\* longer in the processing hash
C3_RedisSequential ==
    \A p \in Procs :
       (callers = 1 /\ redis_fail_hincrby(p)) =>
          LET message == msg[p]
          IN /\ message.id \notin DOMAIN hprocessing'
             /\ IF message.status = "PENDING"
                THEN /\ redis_get_status(zqueue', hprocessing', hcompleted', message.id) = {to_dict(message)}
                     /\ message.id \notin DOMAIN hcompleted'
                ELSE /\ message.retry_count = max_retries
                     /\ message.id \notin PendingIds(zqueue')
                     /\ message.id \in DOMAIN hcompleted' => hcompleted'[message.id] = to_dict(message)

\* C3: every failure acknowledgement of a job that is being processed adds
\* exactly one to its retry_count, which starts at 0 and changes in no other
\* way, so k claim-and-fail cycles leave it at k; while the new count is
\* below max_retries (3) the job returns to PENDING, and the failure that
\* makes it max_retries files the job as FAILED, after which it is never
\* pending again.
C3_RetryBound == [][C3_Memory /\ C3_Redis /\ C3_RedisSequential]_vars

\* on the durable backend the third failure of a job has just returned and
\* the job is on record as failed with three retries counted
C3_Witness ==
    /\ backend = "redis"
    /\ \E i \in DOMAIN hcompleted :
          /\ ret = Ret("fail", i, "True")
          /\ hcompleted[i].status = "failed"
          /\ hcompleted[i].retry_count = 3

\* new is the key union of old and the result, the result's value on every
\* key it holds; without a result new is old
Merged(old, result, new) ==
    IF result.none THEN new = old
    ELSE \A k \in PayloadKeys : new[k] = IF result.doc[k] # Absent THEN result.doc[k] ELSE old[k]

\* message differs from the one that was being processed only in being
\* COMPLETED, stamped with the time t, and holding the merged payload
Completes(old, result, t, message) ==
    /\ message.status = "COMPLETED"
    /\ message.completed_at = t
    /\ Merged(old.payload, result, message.payload)
    /\ [message EXCEPT !.status = old.status, !.completed_at = old.completed_at,
                        !.payload = old.payload] = old

\* in-process backend: complete on a job that is being processed
C9_Memory ==
    \A message_id \in AckIds, result \in Results :
       (complete(message_id, result) /\ message_id \in DOMAIN processing) =>
          /\ ret' = Ret("complete", message_id, "True")
          /\ message_id \notin DOMAIN processing'
          /\ message_id \notin QueueIds(queue')
          /\ message_id \in DOMAIN completed'
          /\ Completes(processing[message_id], result, now, completed'[message_id])
          /\ LET shown == get_status(queue', processing', completed', message_id)
             IN /\ shown.status = "completed"
                /\ shown.completed_at = isoformat(now)
                /\ Merged(processing[message_id].payload, result, shown.payload)

\* durable backend, whatever the interleaving: complete on a job in the
\* processing hash builds the completed message from the stored one, writes
\* it to the completed hash, deletes the processing entry and returns True
C9_Redis ==
    \A p \in Procs :
       /\ \A message_id \in AckIds, result \in Results :
             (redis_complete(p, message_id, result) /\ message_id \in DOMAIN hprocessing) =>
                /\ pc'[p] = "complete_hset"
                /\ msg'[p].id = message_id
                /\ Completes(from_dict(hprocessing[message_id]), result, now, msg'[p])
       /\ redis_complete_hset(p) =>
             /\ hcompleted'[msg[p].id] = to_dict(msg[p])
             /\ hcompleted'[msg[p].id].status = "completed"
             /\ hcompleted'[msg[p].id].payload = msg[p].payload
       /\ redis_complete_hdel(p) => msg[p].id \notin DOMAIN hprocessing'
       /\ redis_complete_hincrby(p) => ret' = Ret("complete", msg[p].id, "True")

\* durable backend used by one caller at a time: when complete returns, the
\* job is neither pending nor being processed, and get_status shows the
\* completed message unless the completed hash has expired meanwhile
C9_RedisSequential ==
    \A p \in Procs :
       (callers = 1 /\ redis_complete_hincrby(p)) =>
          /\ msg[p].status = "COMPLETED"
          /\ msg[p].id \notin PendingIds(zqueue')
          /\ msg[p].id \notin DOMAIN hprocessing'
          /\ msg[p].id \in DOMAIN hcompleted' =>
                redis_get_status(zqueue', hprocessing', hcompleted', msg[p].id) = {to_dict(msg[p])}

\* C9: complete on a job that is being processed returns True and files the
\* job as COMPLETED with completed_at set to the current time; its payload
\* becomes the key union of the old payload and the result, the result's
\* value on every key both hold, and stays as it was when no result is
\* given; nothing else of the message changes, and get_status then shows
\* the completed status and the merged payload.
C9_Complete == [][C9_Memory /\ C9_Redis /\ C9_RedisSequential]_vars

\* complete has just returned True for a job whose payload kept applicant,
\* took coverage from the result and gained decision
C9_Witness ==
    /\ backend = "memory"
    /\ \E i \in DOMAIN completed :
          /\ ret = Ret("complete", i, "True")
          /\ completed[i].status = "COMPLETED"
          /\ completed[i].payload = Doc("ann", "200000", "ACCEPT")
          /\ get_status(queue, processing, completed, i).payload = Doc("ann", "200000", "ACCEPT")

\* ids of the messages the in-process backend holds
HeldIds == QueueIds(queue) \cup DOMAIN processing \cup DOMAIN completed

\* in-process backend: enqueue raises exactly when the pending list is at
\* max_size and then changes nothing; otherwise it adds one PENDING message
\* with a fresh id to the pending list and returns that id
C10_Memory ==
    \A payload \in Payloads, priority \in Priorities :
       enqueue(payload, priority) =>
          IF Len(queue) >= max_size
          THEN /\ ret' = Ret("enqueue", 0, "ValueError")
               /\ UNCHANGED <<memVars, nextId, outstanding, swept>>
          ELSE /\ ret'.val = "id"
               /\ ret'.id \notin HeldIds \cup swept
               /\ Len(queue') = Len(queue) + 1
               /\ \E k \in 1..Len(queue') :
                     /\ queue'[k] = QueueMessage(ret'.id, payload, priority, now)
                     /\ queue'[k].status = "PENDING"
                     /\ \A j \in 1..Len(queue) :
                           queue[j] = queue'[IF j < k THEN j ELSE j + 1]
               /\ UNCHANGED <<processing, completed>>

\* durable backend, whatever the interleaving: enqueue raises exactly when
\* zcard reports max_size or more and then changes nothing; otherwise it
\* builds one PENDING message with a fresh id, adds it to the pending set as
\* one new member, and returns its id
C10_Redis ==
    \A p \in Procs :
       /\ \A payload \in Payloads, priority \in Priorities :
             redis_enqueue(p, payload, priority) =>
                IF zcard(zqueue) >= max_size
                THEN /\ ret' = Ret("enqueue", 0, "ValueError")
                     /\ UNCHANGED <<zqueue, hprocessing, hcompleted, stats, expiring, pc, msg, nextId>>
                ELSE /\ pc'[p] = "enqueue_zadd"
                     /\ msg'[p] = QueueMessage(msg'[p].id, payload, priority, now)
                     /\ msg'[p].id \notin
                           PendingIds(zqueue) \cup DOMAIN hprocessing \cup DOMAIN hcompleted
                             \cup {msg[q].id : q \in Procs}
                     /\ UNCHANGED <<zqueue, hprocessing, hcompleted, stats>>
       /\ redis_enqueue_zadd(p) =>
             /\ zqueue' = zqueue \cup {[member |-> to_dict(msg[p]), score |-> -PriorityValue(msg[p].priority)]}
             /\ zcard(zqueue') = zcard(zqueue) + 1
             /\ to_dict(msg[p]).status = "pending"
             /\ UNCHANGED <<hprocessing, hcompleted>>
       /\ redis_enqueue_hincrby(p) =>
             /\ ret' = Ret("enqueue", msg[p].id, "id")
             /\ stats'.total_enqueued = stats.total_enqueued + 1
             /\ UNCHANGED <<zqueue, hprocessing, hcompleted>>

\* C10: enqueue raises the capacity error exactly when the number of pending
\* jobs it reads is max_size or more, and then creates no message and changes
\* no container and no counter; otherwise it adds exactly one new PENDING
\* job and returns its id.  Once a dequeue has taken a job from a full queue
\* the next enqueue succeeds.
C10_Capacity == [][C10_Memory /\ C10_Redis]_vars

\* with max_size 1 the first job filled the queue, dequeue took it, and the
\* enqueue that just returned admitted the second job
C10_Witness ==
    /\ backend = "memory"
    /\ max_size = 1
    /\ ret = Ret("enqueue", 2, "id")
    /\ DOMAIN processing = {1}
    /\ QueueIds(queue) = {2}

\* C12: once a job is in the completed map (COMPLETED or FAILED) no enqueue,
\* dequeue, complete or fail changes any field of its record or moves it,
\* dequeue never returns it again, every later complete or fail for its id
\* returns False, and only cleanup_old_messages removes it.
C12_TerminalAbsorbing ==
    [][\A i \in DOMAIN completed :
         /\ \/ /\ i \in DOMAIN completed'
               /\ completed'[i] = completed[i]
               /\ i \notin QueueIds(queue') \cup DOMAIN processing'
            \/ /\ \E older_than_hours \in SweepAges : cleanup_old_messages(older_than_hours)
               /\ i \notin QueueIds(queue') \cup DOMAIN processing' \cup DOMAIN completed'
         /\ dequeue => ret'.id # i
         /\ \A result \in Results : complete(i, result) => ret'.val = "False"
         /\ \A error_message \in Errors : fail(i, error_message) => ret'.val = "False"]_vars

\* both jobs are finished, one of them FAILED after three failures, and a
\* further fail has just been refused
C12_Witness ==
    /\ backend = "memory"
    /\ DOMAIN completed = AckIds
    /\ \E i \in DOMAIN completed :
          completed[i].status = "FAILED" /\ completed[i].retry_count = 3
    /\ ret = Ret("fail", 0, "False")

\* the view get_status gives of message m
Shows(view, m) ==
    /\ view.id = m.id
    /\ view.status = StatusValue(m.status)
    /\ view.retry_count = m.retry_count
    /\ view.error_message = m.error_message
    /\ view.created_at = isoformat(m.created_at)
    /\ view.started_at = (IF m.started_at = NoTime THEN JsonNull ELSE isoformat(m.started_at))
    /\ view.completed_at = (IF m.completed_at = NoTime THEN JsonNull ELSE isoformat(m.completed_at))

\* C13: for every id that was admitted and not deleted by cleanup get_status
\* returns a view whose status, retry_count, error_message and times are
\* those of the record in the container that holds it; for every other id
\* it returns None.
C13_StatusView ==
    \A i \in Ids :
       LET view == get_status(queue, processing, completed, i)
       IN IF i < nextId /\ i \notin swept
          THEN /\ \A k \in 1..Len(queue) : queue[k].id = i => Shows(view, queue[k])
               /\ i \in DOMAIN processing => Shows(view, processing[i])
               /\ i \in DOMAIN completed => Shows(view, completed[i])
               /\ view.id = i
          ELSE view = _message_to_dict(NoMessage)

\* one job was deleted by cleanup and reads as None; the other failed once
\* and is being processed again, and its view shows that
C13_Witness ==
    /\ backend = "memory"
    /\ swept # {}
    /\ \E i \in DOMAIN processing :
          LET view == get_status(queue, processing, completed, i)
          IN /\ view.status = "processing"
             /\ view.retry_count = 1
             /\ view.error_message = "e2"
             /\ view.started_at = isoformat(now)
    /\ \E i \in swept : get_status(queue, processing, completed, i).id = 0

\* the finished records whose completion time is strictly before now - T
Expired(ids, completed_at, older_than_hours) ==
    {i \in ids : completed_at[i] # NoTime /\ completed_at[i] < now - older_than_hours}

\* MessageQueue.cleanup_old_messages
C11_Memory ==
    \A older_than_hours \in SweepAges :
       cleanup_old_messages(older_than_hours) =>
          LET old == Expired(DOMAIN completed,
                             [i \in DOMAIN completed |-> completed[i].completed_at],
                             older_than_hours)
          IN /\ DOMAIN completed' = DOMAIN completed \ old
             /\ \A i \in DOMAIN completed' : completed'[i] = completed[i]
             /\ ret'.val = CountName(Cardinality(old))
             /\ queue' = queue
             /\ processing' = processing

\* RedisMessageQueue.cleanup_old_messages: the scan picks exactly the old
\* entries, and the hdel that follows deletes what the scan picked (while the
\* entries are still there) and returns their number
C11_Redis ==
    \A p \in Procs :
       /\ \A older_than_hours \in SweepAges :
             redis_cleanup_old_messages(p, older_than_hours) =>
                LET old == Expired(DOMAIN hcompleted,
                                   [i \in DOMAIN hcompleted |-> from_dict(hcompleted[i]).completed_at],
                                   older_than_hours)
                IN /\ IF old = {}
                      THEN ret'.val = "0" /\ pc'[p] = "idle"
                      ELSE old_message_ids'[p] = old /\ pc'[p] = "cleanup_hdel"
                   /\ hcompleted' = hcompleted
                   /\ zqueue' = zqueue
                   /\ hprocessing' = hprocessing
       /\ redis_cleanup_hdel(p) /\ old_message_ids[p] \subseteq DOMAIN hcompleted =>
             /\ DOMAIN hcompleted' = DOMAIN hcompleted \ old_message_ids[p]
             /\ \A i \in DOMAIN hcompleted' : hcompleted'[i] = hcompleted[i]
             /\ ret'.val = CountName(Cardinality(old_message_ids[p]))
             /\ zqueue' = zqueue
             /\ hprocessing' = hprocessing

\* C11: cleanup_old_messages(T) removes exactly the finished records whose
\* completed_at is strictly earlier than now - T and returns their number;
\* records completed at or after the cutoff stay as they are, and the
\* pending and processing containers are unchanged.
C11_Sweep == [][C11_Memory /\ C11_Redis]_vars

\* on the durable backend a cleanup has just deleted one record and kept
\* another one, completed exactly at the cutoff
C11_Witness ==
    /\ backend = "redis"
    /\ ret = Ret("cleanup_old_messages", 0, "1")
    /\ swept # {}
    /\ \E i \in DOMAIN hcompleted :
          /\ i \notin swept
          /\ hcompleted[i].completed_at = isoformat(now)

\* the step is an acknowledgement taking job i out of the processing container
AckTakes(i) ==
    \/ \E result \in Results : complete(i, result)
    \/ \E error_message \in Errors : fail(i, error_message)
    \/ \E p \in Procs :
          /\ msg[p].id = i
          /\ redis_complete_hdel(p) \/ redis_fail_zadd_hdel(p) \/ redis_fail_hset_hdel(p)

\* C18: a record in the processing container is never removed or changed by
\* the passage of time or by cleanup_old_messages, on either backend: it
\* stays as it is until a complete or a fail for its id takes it out.
C18_InFlightStable ==
    [][/\ \A i \in DOMAIN processing :
            \/ i \in DOMAIN processing' /\ processing'[i] = processing[i]
            \/ AckTakes(i)
       /\ \A i \in DOMAIN hprocessing :
            \/ i \in DOMAIN hprocessing' /\ hprocessing'[i] = hprocessing[i]
            \/ AckTakes(i)]_vars

\* C17: on the durable backend, with calls interleaving between store
\* calls, whenever no call is in progress every job that was admitted and
\* not deleted by cleanup is in the pending set, the processing hash or the
\* completed hash; a dequeue running between the zadd and the hdel of a
\* fail for the same job does not make the job disappear.
C17_NoDataLoss ==
    (backend = "redis" /\ \A p \in Procs : pc[p] = "idle") =>
       \A i \in 1..(nextId - 1) :
          i \notin swept =>
             i \in PendingIds(zqueue) \cup DOMAIN hprocessing \cup DOMAIN hcompleted

\* the lifetime counters
CounterKeys ==
    {"total_enqueued", "total_dequeued", "total_completed", "total_failed", "total_retries"}

\* the step performs the transition counter k counts
Performs(k) ==
    CASE k = "total_enqueued" ->
           \/ \E payload \in Payloads, priority \in Priorities :
                 enqueue(payload, priority) /\ ret'.val # "ValueError"
           \/ \E p \in Procs : redis_enqueue_hincrby(p)
      [] k = "total_dequeued" ->
           \/ dequeue /\ ret'.id # 0
           \/ \E p \in Procs : redis_dequeue_hincrby(p)
      [] k = "total_completed" ->
           \/ \E i \in AckIds, result \in Results : complete(i, result) /\ ret'.val = "True"
           \/ \E p \in Procs : redis_complete_hincrby(p)
      [] k = "total_failed" ->
           \/ \E i \in AckIds, e \in Errors :
                 fail(i, e) /\ ret'.val = "True" /\ i \in DOMAIN completed'
           \/ \E p \in Procs : redis_fail_hincrby(p) /\ msg[p].status = "FAILED"
      [] k = "total_retries" ->
           \/ \E i \in AckIds, e \in Errors :
                 fail(i, e) /\ ret'.val = "True" /\ i \in QueueIds(queue')
           \/ \E p \in Procs : redis_fail_hincrby(p) /\ msg[p].status = "PENDING"

\* the dict before and after the step has counter k, and k went up by one
\* if the step performed its transition and stayed as it was otherwise
Counts(before, after, k) ==
    /\ k \in DOMAIN before
    /\ k \in DOMAIN after
    /\ after[k] = before[k] + (IF Performs(k) THEN 1 ELSE 0)

\* C16: on either backend get_queue_stats exposes the lifetime counters
\* total_enqueued, total_dequeued, total_completed, total_failed and
\* total_retries; each goes up by exactly one with each transition of its
\* kind, and a refused call or a call that does nothing changes none of
\* them.
C16_LifetimeCounters ==
    [][\A k \in CounterKeys :
         IF backend = "memory"
         THEN Counts(get_queue_stats(queue, processing, completed, now),
                     get_queue_stats(queue', processing', completed', now'), k)
         ELSE \A before \in redis_get_queue_stats(zqueue, hprocessing, hcompleted, stats, now),
                 after \in redis_get_queue_stats(zqueue', hprocessing', hcompleted', stats', now') :
                 Counts(before, after, k)]_vars

\* every admitted job is eventually in the completed map (until cleanup
\* deletes it)
C20_Finishes ==
    \A i \in AckIds : (i < nextId) ~> (i \in DOMAIN completed \/ i \in swept)

\* a job is claimed only while fewer than max_retries claims of it have failed
C20_ClaimsBounded ==
    [][dequeue /\ queue # <<>> => queue[1].retry_count + 1 <= max_retries]_vars

\* C20: with a worker that keeps claiming pending jobs and acknowledging the
\* jobs it claimed (weak fairness) and finitely many enqueues, every admitted
\* job is eventually COMPLETED or FAILED, and no job is claimed more than
\* max_retries times.
C20_Terminates == C20_Finishes /\ C20_ClaimsBounded

\* one job went through three claims and ended FAILED, the other was
\* completed at its first claim
C20_Witness ==
    /\ backend = "memory"
    /\ \E i, j \in DOMAIN completed :
          /\ completed[i].status = "FAILED"
          /\ completed[i].retry_count = max_retries
          /\ completed[j].status = "COMPLETED"
          /\ completed[j].retry_count = 0

\* once initialize() has run, _use_mock tells whether it reached the store
C19_Flag ==
    (backend = "redis" /\ initializations > 0) =>
       (_use_mock <=> (~REDIS_AVAILABLE \/ ~reachable))

\* in fallback mode the flag stays set and initialize() is not run again
C19_Permanent ==
    _use_mock => _use_mock' /\ initializations' = initializations

\* the step is a call of a method of the durable backend in fallback mode
FallbackCall ==
    \/ \E payload \in Payloads, priority \in Priorities : mock_enqueue(payload, priority)
    \/ mock_dequeue
    \/ \E message_id \in AckIds, result \in Results : mock_complete(message_id, result)
    \/ \E message_id \in AckIds, error_message \in Errors : mock_fail(message_id, error_message)
    \/ \E older_than_hours \in SweepAges : fallback_cleanup_old_messages(older_than_hours)
    \/ health_check

\* in fallback mode a call is answered from the mock store: it does not
\* touch the keys of the real store and does not fail on the missing client
\* or the unreachable store
C19_Served ==
    (_use_mock /\ FallbackCall) =>
       /\ <<zqueue, hprocessing, hcompleted, stats>>' = <<zqueue, hprocessing, hcompleted, stats>>
       /\ ret'.val \notin {"AttributeError", "ConnectionError"}

\* in fallback mode health_check reports healthy and using_mock
C19_Health ==
    (_use_mock /\ health_check) => ret'.val = "healthy, using_mock"

\* C19: when the store is unreachable or the client library is missing at
\* initialize() the durable backend sets _use_mock, and when initialize()
\* reaches the store the flag is false; in fallback mode the flag never
\* goes back, initialize() never runs again, every later call is served by
\* the mock store, and health_check reports status healthy with using_mock
\* true.
C19_FallbackPermanent ==
    []C19_Flag /\ [][C19_Permanent /\ C19_Served /\ C19_Health]_vars

\* get_status(i) of the MessageQueue and of the RedisMessageQueue on the
\* real store tell the same: both None, or the same status, retry_count and
\* error_message
SameStatus(i) ==
    LET view == get_status(queue, processing, completed, i)
        found == redis_get_status(zqueue, hprocessing, hcompleted, i)
    IN IF found = {}
       THEN view.id = 0
       ELSE \A data \in found :
               /\ view.id = data.id
               /\ view.status = data.status
               /\ view.retry_count = data.retry_count
               /\ view.error_message = data.error_message

\* the fields both get_queue_stats dicts have are equal
SameStats ==
    LET mine == get_queue_stats(queue, processing, completed, now)
    IN \A theirs \in redis_get_queue_stats(zqueue, hprocessing, hcompleted, stats, now) :
          \A k \in DOMAIN mine : theirs[k] = mine[k]

\* C14: given the same calls in the same order (enqueue, dequeue, complete,
\* fail, get_status, get_queue_stats, cleanup_old_messages), MessageQueue
\* and RedisMessageQueue on the real store return the same: the same job
\* from each dequeue, the same booleans, the same statuses, and the same
\* get_queue_stats fields at the end.
C14_BackendEquivalence ==
    (Answered /\ ~_use_mock) =>
       /\ ret = mret
       /\ \A i \in Ids : SameStatus(i)
       /\ SameStats

\* C15: in fallback mode (_use_mock) RedisMessageQueue returns the same jobs
\* in the same order from dequeue and the same booleans from complete and
\* fail as MessageQueue given the same calls, also when a failed job is put
\* back while newer jobs of the same priority are pending.
C15_FallbackTransparent ==
    (Answered /\ _use_mock /\ call.op \in {"enqueue", "dequeue", "complete", "fail"}) =>
       ret = mret

\* the completed records the sweep of the fallback store has to delete: those
\* of the mock store's completed hash finished before the cutoff
FallbackOld(older_than_hours) ==
    {i \in DOMAIN mock_redis.COMPLETED_KEY :
        /\ mock_redis.COMPLETED_KEY[i].completed_at # JsonNull
        /\ fromisoformat(mock_redis.COMPLETED_KEY[i].completed_at) < now - older_than_hours}

\* C23: on a durable backend that fell back at initialize(),
\* cleanup_old_messages(older_than_hours) raises nothing, deletes from the
\* fallback store the completed records finished before the cutoff and
\* returns their count, as MessageQueue.cleanup_old_messages does.
C23_FallbackSweep ==
    [][\A older_than_hours \in SweepAges :
          (_use_mock /\ fallback_cleanup_old_messages(older_than_hours)) =>
             /\ ret' = Ret("cleanup_old_messages", 0, CountName(Cardinality(FallbackOld(older_than_hours))))
             /\ mock_redis' = [mock_redis EXCEPT
                                 !.COMPLETED_KEY = hdel_fields(@, FallbackOld(older_than_hours))]]_vars

\* C22: every dequeue of the durable backend on the real store returns a
\* pending job that no other pending job precedes in the order priority
\* descending, created_at ascending: none of higher priority, and none of
\* the same priority created earlier.
C22_DurableOrder ==
    [][\A p \in Procs :
          (redis_dequeue(p) /\ zqueue # {}) =>
             \A e \in zqueue : ~KeyLess(from_dict(e.member), msg'[p])]_vars

\* while no job has been put back by fail, the pending set of the durable
\* backend holds what enqueue has added
OnlyAdmitted == backend = "redis" /\ \A e \in zqueue : e.member.retry_count = 0

\* the zadd of an enqueue adds one record for the new id, which had none
AdmitsOne(p) ==
    redis_enqueue_zadd(p) =>
       /\ ~\E e \in zqueue : e.member.id = msg[p].id
       /\ Cardinality({e \in zqueue' : e.member.id = msg[p].id}) = 1

\* C27: with enqueue calls of the durable backend interleaving between zcard
\* and zadd, the pending set never holds more than max_size jobs, and every
\* enqueue adds exactly one record for the id it returns.
C27_ConcurrentAdmission ==
    /\ [](OnlyAdmitted => zcard(zqueue) <= max_size)
    /\ [][\A p \in Procs : AdmitsOne(p)]_vars

\* caller p is inside complete or fail, past the hget that found the job in
\* the processing hash: the call will return True
AckLabels ==
    {"complete_hset", "complete_hdel", "complete_expire", "complete_hincrby",
     "fail_zadd", "fail_zadd_hdel", "fail_hset", "fail_hset_hdel", "fail_hincrby"}
Acking(p) == backend = "redis" /\ pc[p] \in AckLabels

\* the retry_count of the processing entry caller p's acknowledgement read:
\* fail has added one to it, complete has not
AckedAttempt(p) ==
    IF pc[p] \in {"complete_hset", "complete_hdel", "complete_expire", "complete_hincrby"}
    THEN msg[p].retry_count
    ELSE msg[p].retry_count - 1

\* no two acknowledgements of the same claim of a job both take effect
C21_OneAckTakes ==
    ~(/\ Acking("c1") /\ Acking("c2")
      /\ msg["c1"].id = msg["c2"].id
      /\ AckedAttempt("c1") = AckedAttempt("c2"))

\* when no call is running a job is in at most one place: one pending
\* member, or the completed hash
C21_OnePlace ==
    (backend = "redis" /\ \A p \in Procs : pc[p] = "idle") =>
       \A i \in Ids :
          Cardinality({e \in zqueue : e.member.id = i})
             + (IF i \in DOMAIN hcompleted THEN 1 ELSE 0) <= 1

\* when no call is running the counters of acknowledgements add up to no
\* more than the claims counted
C21_CountedOnce ==
    (backend = "redis" /\ \A p \in Procs : pc[p] = "idle") =>
       stats.total_completed + stats.total_failed + stats.total_retries <= stats.total_dequeued

\* dequeue does not return a job whose record in the completed hash is
\* COMPLETED
C21_NotClaimedAgain ==
    \A p \in Procs :
       (redis_dequeue(p) /\ zqueue # {}) =>
          ~(/\ msg'[p].id \in DOMAIN hcompleted
            /\ hcompleted[msg'[p].id].status = StatusValue("COMPLETED"))

\* C21: when two complete/fail calls of the durable backend for the same
\* processing job interleave between store calls, at most one of them takes
\* effect and returns True; afterwards the job is in one place only (not in
\* the completed hash and pending, not pending twice), a COMPLETED job is
\* not returned by dequeue again, and total_completed, total_failed and
\* total_retries together rise by one per claim.
C21_DuplicateAck ==
    /\ [](C21_OneAckTakes /\ C21_OnePlace /\ C21_CountedOnce)
    /\ [][C21_NotClaimedAgain]_vars

\* the record MessageQueue holds for job i
Record(q, p, c, i) == lookup(q, p, c, i)

\* a fail that puts job i back changes four fields of its record: status
\* PENDING, started_at None, error_message the one given, retry_count one
\* more; completed_at stays None
C24_Retry ==
    \A i \in AckIds, error_message \in Errors :
       (fail(i, error_message) /\ i \in DOMAIN processing /\ i \in QueueIds(queue')) =>
          /\ Record(queue', processing', completed', i) =
                [processing[i] EXCEPT !.status = "PENDING",
                                      !.started_at = NoTime,
                                      !.error_message = error_message,
                                      !.retry_count = processing[i].retry_count + 1]
          /\ processing[i].completed_at = NoTime

\* dequeue changes two fields of the record it returns: status PROCESSING
\* and started_at the time of the call
C24_Claim ==
    (dequeue /\ queue # <<>>) =>
       processing'[queue[1].id] =
          [queue[1] EXCEPT !.status = "PROCESSING", !.started_at = now]

\* no step changes the created_at of a record
C24_CreatedAt ==
    \A i \in Ids :
       (/\ StatusOf(queue, processing, completed, i) # "ABSENT"
        /\ StatusOf(queue', processing', completed', i) # "ABSENT") =>
          Record(queue', processing', completed', i).created_at =
             Record(queue, processing, completed, i).created_at

\* C24: a fail that returns a job to PENDING clears started_at, sets
\* error_message to the one reported and adds exactly one to retry_count,
\* and leaves id, priority, payload, created_at, max_retries and
\* completed_at (None) as they were; dequeue sets started_at and the status
\* and nothing else; created_at never changes after enqueue.
C24_RetryFrame == [][C24_Retry /\ C24_Claim /\ C24_CreatedAt]_vars

\* a job admitted at an earlier clock reading, claimed and failed twice with
\* different errors, is pending again and the other job is claimed
C24_Witness ==
    /\ backend = "memory"
    /\ ret = Ret("dequeue", 2, "message")
    /\ now = 1
    /\ \E k \in 1..Len(queue) :
          /\ queue[k].id = 1
          /\ queue[k].retry_count = 2
          /\ queue[k].error_message = "e2"
          /\ queue[k].started_at = NoTime
          /\ queue[k].created_at = 0
    /\ 2 \in DOMAIN processing
    /\ processing[2].started_at = 1

\* what get_status(i) shows of a job's failures
ErrorShown(q, p, c, i) == get_status(q, p, c, i).error_message
RetriesShown(q, p, c, i) == get_status(q, p, c, i).retry_count

\* after a fail(i, e) that returns True get_status(i) shows error_message e
\* and a retry_count one higher than before the call; when the job is FAILED
\* by it, the record filed has that error
C30_Fail ==
    \A i \in AckIds, error_message \in Errors :
       (fail(i, error_message) /\ ret'.val = "True") =>
          /\ ErrorShown(queue', processing', completed', i) = error_message
          /\ RetriesShown(queue', processing', completed', i) =
                RetriesShown(queue, processing, completed, i) + 1
          /\ i \in DOMAIN completed' =>
                /\ completed'[i].status = "FAILED"
                /\ completed'[i].error_message = error_message

\* between fails nothing changes the error_message and the retry_count
\* get_status shows for a job
C30_Kept ==
    \A i \in Ids :
       (/\ ~\E error_message \in Errors : fail(i, error_message)
        /\ StatusOf(queue, processing, completed, i) # "ABSENT"
        /\ StatusOf(queue', processing', completed', i) # "ABSENT") =>
          /\ ErrorShown(queue', processing', completed', i) = ErrorShown(queue, processing, completed, i)
          /\ RetriesShown(queue', processing', completed', i) = RetriesShown(queue, processing, completed, i)

\* C30: after each fail(id, e) that returns True, get_status(id) shows
\* error_message e, replacing the previous one, and retry_count one higher;
\* a job that becomes FAILED carries exactly the error of the last fail,
\* and keeps it afterwards.
C30_ErrorVisible == [][C30_Fail /\ C30_Kept]_vars

\* a job is FAILED with the error of its third fail, which differs from
\* the error of the fail before
C30_Witness ==
    /\ backend = "memory"
    /\ ret = Ret("fail", 1, "True")
    /\ 1 \in DOMAIN completed
    /\ completed[1].status = "FAILED"
    /\ completed[1].retry_count = 3
    /\ completed[1].error_message = "e2"
    /\ 2 \in QueueIds(queue)
    /\ ErrorShown(queue, processing, completed, 2) = "e1"
    /\ RetriesShown(queue, processing, completed, 2) = 1

\* the place of job i in the pending list q
Place(q, i) == CHOOSE k \in 1..Len(q) : q[k].id = i

\* fail(i, error_message) has put job i back into the pending list
PutBack(i) ==
    /\ \E error_message \in Errors : fail(i, error_message)
    /\ i \in DOMAIN processing
    /\ i \in QueueIds(queue')

\* the statement as claimed: the job put back is ahead of every pending job
\* of lower priority and of every job of its priority admitted after it
\* (ids are handed out in admission order), and behind every pending job of
\* higher priority or of its priority and earlier creation
C25_AdmissionOrder ==
    [][\A i \in AckIds : PutBack(i) =>
          LET mine == queue'[Place(queue', i)]
          IN \A k \in 1..Len(queue') :
                LET other == queue'[k]
                IN other.id # i =>
                     /\ (\/ PriorityValue(other.priority) < PriorityValue(mine.priority)
                         \/ /\ other.priority = mine.priority
                            /\ other.id > i)
                          => Place(queue', i) < k
                     /\ (\/ PriorityValue(other.priority) > PriorityValue(mine.priority)
                         \/ /\ other.priority = mine.priority
                            /\ other.created_at < mine.created_at)
                          => k < Place(queue', i)]_vars

\* C25: a job put back into the pending list by MessageQueue.fail keeps its
\* priority and created_at and is placed by them: ahead of every pending
\* job of lower priority and of every job of its priority created later,
\* behind every pending job of higher priority and of every job of its
\* priority created earlier or at the same clock reading.
C25_RetryPosition ==
    [][\A i \in AckIds : PutBack(i) =>
          LET mine == queue'[Place(queue', i)]
          IN /\ mine.priority = processing[i].priority
             /\ mine.created_at = processing[i].created_at
             /\ \A k \in 1..Len(queue') :
                   LET other == queue'[k]
                   IN other.id # i =>
                        (Place(queue', i) < k <=>
                           \/ PriorityValue(other.priority) < PriorityValue(mine.priority)
                           \/ /\ other.priority = mine.priority
                              /\ other.created_at > mine.created_at)]_vars

\* job 1 was put back by fail while job 2 of the same priority, admitted
\* one clock reading later, was pending: job 1 is ahead of it
C25_Witness ==
    /\ backend = "memory"
    /\ ret = Ret("fail", 1, "True")
    /\ Len(queue) = 2
    /\ queue[1].id = 1 /\ queue[1].retry_count = 1 /\ queue[1].created_at = 0
    /\ queue[2].id = 2 /\ queue[2].created_at = 1
    /\ queue[1].priority = queue[2].priority

\* job i was admitted before the call and no cleanup has deleted it
Admitted(i) == backend = "redis" /\ Issued(i) /\ i \notin swept

\* C29: a get_status(id) of the durable backend that runs while other
\* callers run dequeue or fail does not return None for a job that was
\* admitted and has not been deleted by cleanup_old_messages, although it
\* reads the pending set, the processing hash and the completed hash in
\* three separate store calls.
C29_StatusVisible ==
    [][\A p \in Procs :
          (redis_status_hget_completed(p) /\ Admitted(msg[p].id)) =>
             ret'.val # "None"]_vars

\* the store calls of dequeue, complete and fail up to the one that ends the
\* move of the job: a call that raises at one of them leaves the move
\* unfinished
Unfinished ==
    {"dequeue_hset", "complete_hset", "complete_hdel",
     "fail_zadd", "fail_zadd_hdel", "fail_hset", "fail_hset_hdel"}

\* C26: when a store call raises part-way through dequeue, complete or fail
\* of the durable backend, the caller gets the error and the job is still
\* in the pending set or in the processing hash, where a repeated call
\* finds it; in particular a dequeue whose hset fails after its zpopmin
\* does not lose the job.
C26_PartialApplication ==
    [][\A p \in Procs :
          (redis_raise(p) /\ pc[p] \in Unfinished) =>
             /\ ret' = Ret(OpOf(pc[p]), msg[p].id, "ConnectionError")
             /\ \/ \E e \in zqueue' : e.member.id = msg[p].id
                \/ msg[p].id \in DOMAIN hprocessing']_vars

\* a step of the queue itself, not of the caller
QueueStep == ~\E doc \in Assignments : assign(doc)

\* what the caller keeps reads the same after a step of the queue as before
C28_Unaffected ==
    (kept # NoReference /\ kept' = kept /\ QueueStep) =>
       referent(queue', processing', completed') = referent(queue, processing, completed)

\* an assignment by the caller in what it keeps leaves get_status as it was
C28_Unreachable ==
    \A doc \in Assignments :
       assign(doc) =>
          \A i \in Ids : get_status(queue', processing', completed', i)
                           = get_status(queue, processing, completed, i)

\* C28: nothing MessageQueue returns or is given shares state with it: the
\* QueueMessage dequeue returned, the dict get_status returned and the
\* payload passed to enqueue read the same after every later enqueue,
\* dequeue, complete and fail (a status dict taken before complete does not
\* show the merged result afterwards), and a caller's assignment in any of
\* them does not change what get_status returns.
C28_CopyReturning == [][C28_Unaffected /\ C28_Unreachable]_vars

\* the pending list is in the order of the sort key: no element has a
\* smaller key (higher priority, or the same priority and earlier
\* created_at) than an element before it
C36_Sorted ==
    backend = "memory" =>
       \A j, k \in 1..Len(queue) : j < k => ~KeyLess(queue[k], queue[j])

\* the message dequeue takes is one of highest priority among the pending
\* ones and, among those, one of earliest created_at
C36_HeadFirst ==
    (dequeue /\ queue # <<>>) =>
       \E i \in DOMAIN processing' \ DOMAIN processing :
          \A k \in 1..Len(queue) :
             /\ PriorityValue(queue[k].priority) <= PriorityValue(processing'[i].priority)
             /\ queue[k].priority = processing'[i].priority =>
                   processing'[i].created_at <= queue[k].created_at

\* C36: in every reachable state of MessageQueue the pending list is sorted
\* by (priority descending, created_at ascending), so the message dequeue
\* removes (index 0) has the highest priority pending and, among those of
\* that priority, the earliest created_at.
C36_SortedPending == []C36_Sorted /\ [][C36_HeadFirst]_vars

\* an URGENT job admitted after a NORMAL one stands before it, and a job
\* put back by fail is pending with them in key order
C36_Witness ==
    /\ backend = "memory"
    /\ Len(queue) = 2
    /\ queue[1].id = 2 /\ queue[1].priority = "URGENT" /\ queue[1].created_at = 1
    /\ queue[2].id = 1 /\ queue[2].priority = "NORMAL" /\ queue[2].created_at = 0
    /\ queue[2].retry_count = 1


\* C35: in MessageQueue the number of PENDING messages never exceeds
\* max_size, whatever enqueue, dequeue, complete, fail and
\* cleanup_old_messages calls were made, also when fail re-queues a message
\* while the pending list holds max_size messages already.
C35_Capacity ==
    backend = "memory" => Len(queue) <= max_size


\* a complete that takes job i files it as COMPLETED with the retry_count
\* and the error_message it had while in flight
C38_Complete ==
    \A i \in AckIds, result \in Results :
       (complete(i, result) /\ i \in DOMAIN processing) =>
          /\ i \in DOMAIN completed'
          /\ completed'[i].status = "COMPLETED"
          /\ completed'[i].retry_count = processing[i].retry_count
          /\ completed'[i].error_message = processing[i].error_message

\* the two fields of a held job change in no step but a fail of that job,
\* which adds one to retry_count and stores the error it was given
C38_OnlyFail ==
    \A i \in AckIds :
       (/\ i \in QueueIds(queue) \cup DOMAIN processing \cup DOMAIN completed
        /\ i \in QueueIds(queue') \cup DOMAIN processing' \cup DOMAIN completed'
        /\ \/ Record(queue', processing', completed', i).retry_count
                 # Record(queue, processing, completed, i).retry_count
           \/ Record(queue', processing', completed', i).error_message
                 # Record(queue, processing, completed, i).error_message) =>
          \E error_message \in Errors :
             /\ fail(i, error_message)
             /\ Record(queue', processing', completed', i).error_message = error_message
             /\ Record(queue', processing', completed', i).retry_count
                   = Record(queue, processing, completed, i).retry_count + 1

\* a COMPLETED job without a failure has retry_count 0 and no error, one
\* with failures has their number and an error
C38_Completed ==
    backend = "memory" =>
       \A i \in DOMAIN completed :
          completed[i].status = "COMPLETED" =>
             /\ completed[i].retry_count \in 0..(max_retries - 1)
             /\ completed[i].retry_count = 0 <=> completed[i].error_message = NoError

\* C38: complete leaves the retry bookkeeping alone: a job completed after
\* k fails is COMPLETED with retry_count = k and error_message the error of
\* the last fail (success does not clear it); a job completed without any
\* fail has retry_count 0 and error_message None.
C38_BookkeepingKept == []C38_Completed /\ [][C38_Complete /\ C38_OnlyFail]_vars

\* job 1 is COMPLETED after two fails, the last with e2, and job 2 is
\* COMPLETED without any
C38_Witness ==
    /\ backend = "memory"
    /\ DOMAIN completed = {1, 2}
    /\ completed[1].status = "COMPLETED" /\ completed[1].retry_count = 2
    /\ completed[1].error_message = "e2"
    /\ completed[2].status = "COMPLETED" /\ completed[2].retry_count = 0
    /\ completed[2].error_message = NoError


\* MessageQueue.dequeue with nothing pending returns None and changes no
\* container
C33_Memory ==
    (dequeue /\ queue = <<>>) =>
       /\ ret' = Ret("dequeue", 0, "None")
       /\ UNCHANGED <<queue, processing, completed, outstanding>>

\* RedisMessageQueue.dequeue with nothing pending returns None after its
\* zpopmin: no key of the store and no counter changes, and the caller is
\* through with the call
C33_Durable ==
    \A p \in Procs :
       (redis_dequeue(p) /\ zqueue = {}) =>
          /\ ret' = Ret("dequeue", 0, "None")
          /\ pc'[p] = "idle"
          /\ UNCHANGED <<zqueue, hprocessing, hcompleted, stats, expiring, outstanding>>

\* C33: dequeue with nothing pending returns None, raises nothing, and
\* leaves the processing and completed containers and every counter
\* (total_dequeued, currently_processing and the others) as they were.
C33_EmptyDequeue == [][C33_Memory /\ C33_Durable]_vars

\* a dequeue has just returned None while a job is in flight, another is
\* COMPLETED and two dispatches are on the counters
C33_Witness ==
    /\ backend = "redis"
    /\ ret = Ret("dequeue", 0, "None")
    /\ zqueue = {}
    /\ DOMAIN hprocessing # {}
    /\ DOMAIN hcompleted # {}
    /\ stats.total_dequeued = 2
    /\ stats.currently_processing = 1


\* the earliest created_at among the messages of the pending list q
EarliestPending(q) ==
    CHOOSE t \in {q[k].created_at : k \in 1..Len(q)} :
       \A k \in 1..Len(q) : t <= q[k].created_at

\* C31: the oldest_pending that get_queue_stats reports is the earliest
\* created_at among all pending messages, whatever their priorities, when
\* the pending list is not empty, and None when it is empty.
C31_OldestPending ==
    backend = "memory" =>
       get_queue_stats(queue, processing, completed, now).oldest_pending
          = IF queue # <<>> THEN isoformat(EarliestPending(queue)) ELSE JsonNull


\* no caller of the durable backend is inside an operation
Quiescent == \A p \in Procs : pc[p] = "idle"

\* currently_processing is the number of messages in the processing hash
C37_InFlight ==
    /\ stats.currently_processing >= 0
    /\ stats.currently_processing = Cardinality(DOMAIN hprocessing)

\* every dispatch was completed, failed for good, put back, or is in flight
C37_Dispatched ==
    stats.total_dequeued
       = stats.total_completed + stats.total_failed + stats.total_retries
            + stats.currently_processing

\* every admitted message is pending, in flight, terminal or swept
C37_Admitted ==
    stats.total_enqueued
       = zcard(zqueue) + Cardinality(DOMAIN hprocessing)
            + Cardinality(DOMAIN hcompleted) + Cardinality(swept)

\* C37: in every state of RedisMessageQueue in which no operation is in
\* progress, currently_processing is not negative and equals the size of the
\* processing hash, total_dequeued = total_completed + total_failed +
\* total_retries + currently_processing, and total_enqueued = pending count
\* + processing count + completed count + number of swept records.
C37_CounterConservation ==
    (backend = "redis" /\ Quiescent) =>
       C37_InFlight /\ C37_Dispatched /\ C37_Admitted


\* the dict carries the priority as its value 1..4, the status as its string
\* value and the times as ISO strings or None
C32_Serialized ==
    /\ stored.priority \in 1..4
    /\ stored.priority = PriorityValue(original.priority)
    /\ stored.status \in {"pending", "processing", "completed", "failed", "cancelled"}
    /\ stored.status = StatusValue(original.status)
    /\ stored.started_at = JsonNull <=> original.started_at = NoTime
    /\ stored.completed_at = JsonNull <=> original.completed_at = NoTime

\* C32: for every QueueMessage m (any priority, any status, started_at,
\* completed_at and error_message set or None, any retry_count)
\* QueueMessage.from_dict(m.to_dict()) equals m field by field, with the
\* priority serialized as its value 1..4 and the status as its string value.
C32_RoundTrip ==
    /\ ret.op \in {"to_dict", "from_dict"} => C32_Serialized
    /\ ret.op = "from_dict" =>
          /\ restored = original
          /\ \A f \in DOMAIN original : restored[f] = original[f]

\* a FAILED message of priority URGENT with both times, an error and three
\* retries has been serialized and parsed back
C32_Witness ==
    /\ ret.op = "from_dict"
    /\ original.priority = "URGENT" /\ stored.priority = 4
    /\ original.status = "FAILED" /\ stored.status = "failed"
    /\ original.started_at = 0 /\ original.completed_at = 1
    /\ original.error_message = "e2" /\ original.retry_count = 3
    /\ restored.completed_at = 1


\* the ids returned by enqueue calls on the first object
Queue1Ids == (1..(nextId - 1)) \ queue2_ids

\* a dequeue on either object returns only a job admitted through that
\* object
C34_Dequeue ==
    /\ (mock_dequeue /\ ret'.val = "message") => ret'.id \in Queue1Ids
    /\ (queue2_dequeue /\ ret'.val = "message") => ret'.id \in queue2_ids

\* get_status on either object is None for a job admitted through the
\* other one
C34_Status ==
    /\ _use_mock =>
          \A i \in queue2_ids : mock_get_status(mock_redis, i) = to_dict(NoMessage)
    /\ queue2._use_mock =>
          \A i \in Queue1Ids : queue2_get_status(i) = to_dict(NoMessage)

\* get_queue_stats on either object counts only the jobs admitted through it
C34_Stats ==
    /\ _use_mock =>
          mock_get_queue_stats(mock_redis).total_enqueued = Cardinality(Queue1Ids)
    /\ queue2._use_mock =>
          queue2_get_queue_stats.total_enqueued = Cardinality(queue2_ids)

\* C34: two separately constructed RedisMessageQueue objects that both fell
\* back to the mock hold independent state: a job admitted through one is
\* never returned by dequeue, get_status or get_queue_stats of the other.
C34_Independent == [](C34_Status /\ C34_Stats) /\ [][C34_Dequeue]_vars
====
